---- MODULE Spec2Model ----
(***************************************************************************)
(* Benchmark-telemetry pipeline: the run orchestrator                      *)
(* (scripts/bench_lib/runner.py, mmph/benchmarks/analyze.py) and the log   *)
(* parser (scripts/bench_lib/parser.py).                                   *)
(*                                                                         *)
(* Text is modelled as a sequence of one-character strings, so that        *)
(* concatenation, splitting and number parsing are computed, not assumed.  *)
(***************************************************************************)
EXTENDS Integers, Sequences, FiniteSets, TLC

VARIABLES
    modules,        \* run_benchmarks argument: sequence of module descriptors
    count,          \* run_benchmarks argument: repeat count R
    jobs,           \* run_benchmarks argument: worker-pool size J
    split,          \* run_benchmarks argument: split mode
    driver,         \* "lib" = bench_lib/runner.py, "mmph" = mmph/benchmarks/analyze.py
    listOut,        \* environment: what `go test -list` prints in each module directory
    pc,             \* position of the main thread of run_benchmarks
    mi,             \* index of the module the main thread is at (submit loop, merge loop)
    all_benchmarks, \* split mode: names discovered for the current module
    bi,             \* split mode: index of the current name
    ii,             \* iteration the submit loop is at
    tasks,          \* the futures, in submission order
    temp_files_map, \* module name -> temporary files recorded for the merge
    fs,             \* the file system: path -> content, for the files that exist
    mj,             \* merge loop: index of the current temporary file
    reordered,      \* history: an invocation finished before one submitted earlier
    logInput,       \* parser input: how the log under parse was put together
    logFile,        \* parser input: whether the log exists, and its lines
    rows,           \* parse_file: the rows returned
    rowLine,        \* history: for each returned row, the index of its line
    ppc,            \* parser driver: "start" | "parsed"
    call,           \* library call under study: the function and its arguments
    ret,            \* library call under study: what the call returned
    cpc             \* library call under study: "idle" | "called" | "returned"

runnerVars == <<modules, count, jobs, split, driver, listOut, pc, mi,
                all_benchmarks, bi, ii, tasks, temp_files_map, fs, mj, reordered>>

parserVars == <<logInput, logFile, rows, rowLine, ppc>>

callVars == <<call, ret, cpc>>

vars == <<runnerVars, parserVars, callVars>>

-----------------------------------------------------------------------------
(* Bounds of the model *)

MaxCount == 2
MaxJobs == 2
MaxTasks == 4

-----------------------------------------------------------------------------
(* Text helpers *)

Marker == <<"B", "e", "n", "c", "h", "m", "a", "r", "k">>

Dot == <<".">>

DigitChar(d) ==
    CASE d = 0 -> "0" [] d = 1 -> "1" [] d = 2 -> "2" [] d = 3 -> "3"
      [] d = 4 -> "4" [] d = 5 -> "5" [] d = 6 -> "6" [] d = 7 -> "7"
      [] d = 8 -> "8" [] d = 9 -> "9"

RECURSIVE StrInt(_)
\* str(i) of a non-negative integer
StrInt(n) ==
    IF n < 10 THEN <<DigitChar(n)>>
    ELSE StrInt(n \div 10) \o <<DigitChar(n % 10)>>

StartsWith(s, p) ==
    /\ Len(s) >= Len(p)
    /\ SubSeq(s, 1, Len(p)) = p

RECURSIVE Flatten(_)
\* concatenation of a sequence of sequences
Flatten(ss) ==
    IF ss = <<>> THEN <<>> ELSE Head(ss) \o Flatten(Tail(ss))

SeqRange(s) == {s[k] : k \in 1..Len(s)}

-----------------------------------------------------------------------------
(* The file system *)

Exists(files, p) == p \in DOMAIN files

Put(files, p, c) ==
    [q \in (DOMAIN files) \cup {p} |-> IF q = p THEN c ELSE files[q]]

Remove(files, p) ==
    [q \in (DOMAIN files) \ {p} |-> files[q]]

-----------------------------------------------------------------------------
(* Run orchestrator: naming and discovery *)

BenchX == Marker \o <<"X">>
BenchY == Marker \o <<"Y">>
OkLine == <<"o", "k">>

\* list_benchmarks: the lines of the listing that start with "Benchmark";
\* a failed listing gives no name
list_benchmarks(listing) ==
    IF ~listing.ok THEN <<>>
    ELSE SelectSeq(listing.lines, LAMBDA l : StartsWith(l, Marker))

\* mutation: one iteration too many
RangeInclusive(n) == 0..n

\* range(count)
Range(n) == 0..(n - 1)

\* mutation: the iteration is left out of the file name
TempOutNoIteration(out, iteration, bench_suffix) ==
    LET file_tag == IF bench_suffix # <<>> THEN bench_suffix ELSE <<"0">>
    IN  out \o Dot \o file_tag

\* run_single_iteration: the temporary file an invocation captures its output in
TempOut(out, iteration, bench_suffix) ==
    LET file_tag == IF bench_suffix # <<>>
                    THEN bench_suffix \o Dot \o StrInt(iteration)
                    ELSE StrInt(iteration)
    IN  out \o Dot \o file_tag

\* run_benchmarks: the file name recorded in temp_files_map at submission
RecordedTemp(out, b_name, i) ==
    IF b_name # <<>> THEN out \o Dot \o b_name \o Dot \o StrInt(i)
    ELSE out \o Dot \o StrInt(i)

\* mutation: CalledProcessError is not caught
RunResultUncaught(exitCode) ==
    IF exitCode = 0 THEN [st |-> "returned", ok |-> TRUE]
    ELSE [st |-> "raised", ok |-> FALSE]

\* run_single_iteration: what the future holds once the process has exited.
\* CalledProcessError is caught and turned into a returned tuple with False.
RunResult(exitCode) ==
    IF exitCode = 0 THEN [st |-> "returned", ok |-> TRUE]
    ELSE [st |-> "returned", ok |-> FALSE]

\* what the external process left in its output file
Chunk(t, good) == [mod |-> t.mod, bench |-> t.bench, iteration |-> t.iteration, ok |-> good]

ProcessOutputs(t, exitCode) ==
    IF exitCode = 0 THEN {<<Chunk(t, TRUE)>>}
    ELSE {<<>>, <<Chunk(t, FALSE)>>}

-----------------------------------------------------------------------------
(* Run orchestrator: the configurations a run starts from *)

ModA == [name |-> "A", dir |-> "dirA", out |-> <<"a">>]
ModB == [name |-> "B", dir |-> "dirB", out |-> <<"b">>]
\* a module whose output path is another module's output path followed by ".0"
ModC == [name |-> "C", dir |-> "dirC", out |-> <<"a", ".", "0">>]

ModuleLists == {<<ModA>>, <<ModA, ModB>>}

PathModuleLists == {<<ModA, ModB>>, <<ModA, ModC>>, <<ModC, ModA>>}

ListingOutcomes ==
    { [ok |-> FALSE, lines |-> <<>>],
      [ok |-> TRUE, lines |-> <<OkLine>>],
      [ok |-> TRUE, lines |-> <<BenchX, OkLine>>],
      [ok |-> TRUE, lines |-> <<BenchX, BenchY, OkLine>>] }

NoListing == [ok |-> FALSE, lines |-> <<>>]

\* content a final output file may hold from an earlier run
OldChunk == [mod |-> 0, bench |-> <<>>, iteration |-> 0, ok |-> TRUE]

RECURSIVE SumLen(_, _)
SumLen(mods, lo) ==
    IF mods = <<>> THEN 0
    ELSE Len(list_benchmarks(lo[Head(mods).dir])) + SumLen(Tail(mods), lo)

\* number of invocations a configuration submits
Planned(mods, c, sp, lo) ==
    IF sp THEN c * SumLen(mods, lo) ELSE c * Len(mods)

\* no library function is called on its own while the orchestrator or the
\* parser runs
CallIdle ==
    /\ call = [fn |-> "none"]
    /\ ret = [fn |-> "none"]
    /\ cpc = "idle"

\* the parser is idle while the orchestrator runs
ParserIdle ==
    /\ logInput = <<>>
    /\ logFile = [exists |-> FALSE, lines |-> <<>>]
    /\ rows = <<>>
    /\ rowLine = <<>>
    /\ ppc = "idle"

InitWith(lists, stale) ==
    /\ modules \in lists
    /\ count \in 0..MaxCount
    /\ jobs \in 1..MaxJobs
    /\ driver \in {"lib", "mmph"}
    /\ split \in (IF driver = "lib" THEN BOOLEAN ELSE {FALSE})
    /\ listOut \in (IF split
                    THEN [{modules[k].dir : k \in 1..Len(modules)} -> ListingOutcomes]
                    ELSE [{modules[k].dir : k \in 1..Len(modules)} -> {NoListing}])
    /\ Planned(modules, count, split, listOut) <= MaxTasks
    /\ pc = "submit"
    /\ mi = 1
    /\ all_benchmarks = <<>>
    /\ bi = 1
    /\ ii = 0
    /\ tasks = <<>>
    /\ temp_files_map = [n \in {modules[k].name : k \in 1..Len(modules)} |-> <<>>]
    /\ \E old \in SUBSET {modules[k].out : k \in 1..Len(modules)} :
           /\ stale \/ old = {}
           /\ fs = [p \in old |-> <<OldChunk>>]
    /\ mj = 0
    /\ reordered = FALSE
    /\ ParserIdle
    /\ CallIdle

\* a run over modules with unrelated output paths; the output files may hold
\* an earlier run's content
Init == InitWith(ModuleLists, TRUE)

\* a run over modules whose output paths may be related
PathInit == InitWith(PathModuleLists, FALSE)

-----------------------------------------------------------------------------
(* Run orchestrator: the submit loop of the main thread *)

NewTask(m, i, b) ==
    [mod |-> m, iteration |-> i, bench |-> b, st |-> "queued", ok |-> FALSE,
     runs |-> 0, wrote |-> <<>>]

\* split mode: list_benchmarks for the module the loop is at; no name: continue
Discover ==
    /\ pc = "submit" /\ split /\ mi <= Len(modules) /\ all_benchmarks = <<>>
    /\ LET names == list_benchmarks(listOut[modules[mi].dir])
       IN  IF names = <<>> \/ count = 0
           THEN /\ mi' = mi + 1
                /\ UNCHANGED all_benchmarks
           ELSE /\ all_benchmarks' = names
                /\ UNCHANGED mi
    /\ bi' = 1 /\ ii' = 0
    /\ UNCHANGED <<parserVars, callVars, reordered, modules, count, jobs, split, driver, listOut, pc, tasks,
                   temp_files_map, fs, mj>>

\* executor.submit(run_single_iteration, ...) and the bookkeeping beside it
Submit ==
    /\ pc = "submit" /\ mi <= Len(modules) /\ count > 0
    /\ split => all_benchmarks # <<>>
    /\ LET mod == modules[mi]
           b_name == IF split THEN all_benchmarks[bi] ELSE <<>>
           lastIter == ~(ii + 1 \in Range(count))
           lastName == ~split \/ bi = Len(all_benchmarks)
       IN  /\ tasks' = Append(tasks, NewTask(mi, ii, b_name))
           /\ temp_files_map' =
                  IF driver = "lib"
                  THEN [temp_files_map EXCEPT ![mod.name] =
                            Append(@, RecordedTemp(mod.out, b_name, ii))]
                  ELSE temp_files_map
           /\ ii' = IF lastIter THEN 0 ELSE ii + 1
           /\ bi' = IF ~lastIter THEN bi ELSE IF lastName THEN 1 ELSE bi + 1
           /\ mi' = IF lastIter /\ lastName THEN mi + 1 ELSE mi
           /\ all_benchmarks' = IF lastIter /\ lastName THEN <<>> ELSE all_benchmarks
    /\ UNCHANGED <<parserVars, callVars, reordered, modules, count, jobs, split, driver, listOut, pc, fs, mj>>

\* range(count) is empty: the module's loop body never runs
SkipModule ==
    /\ pc = "submit" /\ ~split /\ mi <= Len(modules) /\ count = 0
    /\ mi' = mi + 1
    /\ UNCHANGED <<parserVars, callVars, reordered, modules, count, jobs, split, driver, listOut, pc,
                   all_benchmarks, bi, ii, tasks, temp_files_map, fs, mj>>

\* the loop over the modules is over: the main thread waits for the futures
EndSubmit ==
    /\ pc = "submit" /\ mi > Len(modules)
    /\ pc' = "wait"
    /\ UNCHANGED <<parserVars, callVars, reordered, modules, count, jobs, split, driver, listOut, mi,
                   all_benchmarks, bi, ii, tasks, temp_files_map, fs, mj>>

-----------------------------------------------------------------------------
(* Run orchestrator: the worker pool *)

Finished(t) == t.st \in {"returned", "raised"}

\* mutation: the worker of a failed invocation is not handed back to the pool
RunningOrFailed(ts) ==
    {k \in 1..Len(ts) : ts[k].st = "running" \/ (Finished(ts[k]) /\ ~ts[k].ok)}

\* the workers of the pool that are busy: one per invocation under way
Running(ts) == {k \in 1..Len(ts) : ts[k].st = "running"}

\* a free worker takes the oldest queued call and opens its temporary file
Start(k) ==
    /\ tasks[k].st = "queued"
    /\ \A h \in 1..(k - 1) : tasks[h].st # "queued"
    /\ Cardinality(Running(tasks)) < jobs
    /\ tasks' = [tasks EXCEPT ![k].st = "running", ![k].runs = @ + 1]
    /\ fs' = Put(fs, TempOut(modules[tasks[k].mod].out, tasks[k].iteration,
                             tasks[k].bench), <<>>)
    /\ UNCHANGED <<parserVars, callVars, reordered, modules, count, jobs, split, driver, listOut, pc, mi,
                   all_benchmarks, bi, ii, temp_files_map, mj>>

\* the external process exits; its output is in the temporary file
Finish(k) ==
    /\ tasks[k].st = "running"
    /\ \E exitCode \in {0, 1} :
         \E output \in ProcessOutputs(tasks[k], exitCode) :
           LET temp == TempOut(modules[tasks[k].mod].out, tasks[k].iteration,
                               tasks[k].bench)
               res == RunResult(exitCode)
           IN  /\ fs' = IF Exists(fs, temp) THEN Put(fs, temp, fs[temp] \o output)
                        ELSE fs
               /\ tasks' = [tasks EXCEPT ![k].st = res.st, ![k].ok = res.ok,
                                         ![k].wrote = output]
    /\ reordered' = (reordered \/ \E h \in 1..(k - 1) : ~Finished(tasks[h]))
    /\ UNCHANGED <<parserVars, callVars, modules, count, jobs, split, driver, listOut, pc, mi,
                   all_benchmarks, bi, ii, temp_files_map, mj>>

-----------------------------------------------------------------------------
(* Run orchestrator: barrier and merge *)

\* mutation: the wait returns as soon as one future is done
AllDoneFirstCompleted(ts) == ts = <<>> \/ \E k \in 1..Len(ts) : Finished(ts[k])

\* concurrent.futures.wait(tasks) / as_completed(futures): every future is done
AllDone(ts) == \A k \in 1..Len(ts) : Finished(ts[k])

\* the main thread passes the barrier; f.result() (mmph driver) re-raises
\* what a call raised
Wait ==
    /\ pc = "wait"
    /\ AllDone(tasks)
    /\ pc' = IF driver = "mmph" /\ \E k \in 1..Len(tasks) : tasks[k].st = "raised"
             THEN "raised" ELSE "merge"
    /\ mi' = 1 /\ mj' = 0
    /\ UNCHANGED <<parserVars, callVars, reordered, modules, count, jobs, split, driver, listOut,
                   all_benchmarks, bi, ii, tasks, temp_files_map, fs>>

\* the temporary files the merge loop visits for a module, in order
MergeList(mod) ==
    IF driver = "lib" THEN temp_files_map[mod.name]
    ELSE [k \in 1..count |-> mod.out \o Dot \o StrInt(k - 1)]

\* mutation: the temporary file's content is put before what is already merged
MergeOnePrepend(files, out, temp) ==
    IF Exists(files, temp)
    THEN Remove(Put(files, out, files[temp] \o files[out]), temp)
    ELSE files

\* mutation: the temporary file is merged but not removed
MergeOneKeep(files, out, temp) ==
    IF Exists(files, temp)
    THEN Put(files, out, files[out] \o files[temp])
    ELSE files

\* one pass of the inner merge loop
MergeOne(files, out, temp) ==
    IF Exists(files, temp)
    THEN Remove(Put(files, out, files[out] \o files[temp]), temp)
    ELSE files

\* mutation: the output file is opened for appending
OpenAppend(files, out) ==
    IF Exists(files, out) THEN files ELSE Put(files, out, <<>>)

\* open(mod["out"], "w"): the file is created, or truncated if it exists
OpenWrite(files, out) == Put(files, out, <<>>)

\* with open(mod["out"], "w") as outfile
MergeOpen ==
    /\ pc = "merge" /\ mi <= Len(modules) /\ mj = 0
    /\ fs' = OpenWrite(fs, modules[mi].out)
    /\ mj' = 1
    /\ UNCHANGED <<parserVars, callVars, reordered, modules, count, jobs, split, driver, listOut, pc, mi,
                   all_benchmarks, bi, ii, tasks, temp_files_map>>

MergeFile ==
    /\ pc = "merge" /\ mi <= Len(modules) /\ mj >= 1
    /\ mj <= Len(MergeList(modules[mi]))
    /\ fs' = MergeOne(fs, modules[mi].out, MergeList(modules[mi])[mj])
    /\ mj' = mj + 1
    /\ UNCHANGED <<parserVars, callVars, reordered, modules, count, jobs, split, driver, listOut, pc, mi,
                   all_benchmarks, bi, ii, tasks, temp_files_map>>

\* the module's output file is closed; next module
MergeClose ==
    /\ pc = "merge" /\ mi <= Len(modules) /\ mj >= 1
    /\ mj > Len(MergeList(modules[mi]))
    /\ mi' = mi + 1
    /\ mj' = 0
    /\ UNCHANGED <<parserVars, callVars, reordered, modules, count, jobs, split, driver, listOut, pc,
                   all_benchmarks, bi, ii, tasks, temp_files_map, fs>>

MergeDone ==
    /\ pc = "merge" /\ mi > Len(modules)
    /\ pc' = "done"
    /\ UNCHANGED <<parserVars, callVars, reordered, modules, count, jobs, split, driver, listOut, mi,
                   all_benchmarks, bi, ii, tasks, temp_files_map, fs, mj>>

StartSome == \E k \in 1..Len(tasks) : Start(k)

FinishSome == \E k \in 1..Len(tasks) : Finish(k)

Next ==
    \/ Discover
    \/ Submit
    \/ SkipModule
    \/ EndSubmit
    \/ StartSome
    \/ FinishSome
    \/ Wait
    \/ MergeOpen
    \/ MergeFile
    \/ MergeClose
    \/ MergeDone

Spec == Init /\ [][Next]_vars

PathSpec == PathInit /\ [][Next]_vars

\* the steps of the main thread of run_benchmarks
MainThread ==
    \/ Discover
    \/ Submit
    \/ SkipModule
    \/ EndSubmit
    \/ Wait
    \/ MergeOpen
    \/ MergeFile
    \/ MergeClose
    \/ MergeDone

\* a run of the library orchestrator from a clean output directory
LiveInit == InitWith(ModuleLists, FALSE) /\ driver = "lib"

\* the main thread keeps running, an idle worker of the pool takes the next
\* queued call, and every external invocation that was started exits
LiveSpec ==
    /\ LiveInit
    /\ [][Next]_vars
    /\ WF_vars(MainThread)
    /\ WF_vars(StartSome)
    /\ \A k \in 1..MaxTasks : WF_vars(k <= Len(tasks) /\ Finish(k))

-----------------------------------------------------------------------------
(* Log parser: Python string operations on character sequences *)

Digits == {"0", "1", "2", "3", "4", "5", "6", "7", "8", "9"}

Whitespace == {" ", "\t", "\n", "\r"}

DigitVal(c) ==
    CASE c = "0" -> 0 [] c = "1" -> 1 [] c = "2" -> 2 [] c = "3" -> 3
      [] c = "4" -> 4 [] c = "5" -> 5 [] c = "6" -> 6 [] c = "7" -> 7
      [] c = "8" -> 8 [] c = "9" -> 9

\* c in s
Contains(s, c) == \E k \in 1..Len(s) : s[k] = c

FirstIdx(s, c) == CHOOSE k \in 1..Len(s) : s[k] = c /\ \A h \in 1..(k - 1) : s[h] # c

LastIdx(s, c) == CHOOSE k \in 1..Len(s) : s[k] = c /\ \A h \in (k + 1)..Len(s) : s[h] # c

RECURSIVE Split(_, _)
\* s.split(c)
Split(s, c) ==
    IF ~Contains(s, c) THEN <<s>>
    ELSE <<SubSeq(s, 1, FirstIdx(s, c) - 1)>>
            \o Split(SubSeq(s, FirstIdx(s, c) + 1, Len(s)), c)

\* s.split(c, 1)
SplitOnce(s, c) ==
    IF ~Contains(s, c) THEN <<s>>
    ELSE <<SubSeq(s, 1, FirstIdx(s, c) - 1), SubSeq(s, FirstIdx(s, c) + 1, Len(s))>>

\* s.rsplit(c, 1)
RSplitOnce(s, c) ==
    IF ~Contains(s, c) THEN <<s>>
    ELSE <<SubSeq(s, 1, LastIdx(s, c) - 1), SubSeq(s, LastIdx(s, c) + 1, Len(s))>>

RECURSIVE SplitWS(_, _)
\* s.split(): the maximal runs of non-whitespace characters; cur is the run
\* being read
SplitWS(s, cur) ==
    IF s = <<>> THEN (IF cur = <<>> THEN <<>> ELSE <<cur>>)
    ELSE IF Head(s) \in Whitespace
         THEN (IF cur = <<>> THEN <<>> ELSE <<cur>>) \o SplitWS(Tail(s), <<>>)
         ELSE SplitWS(Tail(s), Append(cur, Head(s)))

\* s.isdigit()
IsDigit(s) == s # <<>> /\ \A k \in 1..Len(s) : s[k] \in Digits

LowerChar(c) ==
    CASE c = "A" -> "a"
      [] c = "B" -> "b"
      [] c = "C" -> "c"
      [] c = "D" -> "d"
      [] c = "E" -> "e"
      [] c = "F" -> "f"
      [] c = "G" -> "g"
      [] c = "H" -> "h"
      [] c = "I" -> "i"
      [] c = "J" -> "j"
      [] c = "K" -> "k"
      [] c = "L" -> "l"
      [] c = "M" -> "m"
      [] c = "N" -> "n"
      [] c = "O" -> "o"
      [] c = "P" -> "p"
      [] c = "Q" -> "q"
      [] c = "R" -> "r"
      [] c = "S" -> "s"
      [] c = "T" -> "t"
      [] c = "U" -> "u"
      [] c = "V" -> "v"
      [] c = "W" -> "w"
      [] c = "X" -> "x"
      [] c = "Y" -> "y"
      [] c = "Z" -> "z"
      [] OTHER -> c

\* s.lower()
Lower(s) == [k \in 1..Len(s) |-> LowerChar(s[k])]

\* a replace that leaves the text as it is
ReplaceNothing(s, c, r) == s

\* s.replace(c, r) for a one-character c
Replace(s, c, r) == Flatten([k \in 1..Len(s) |-> IF s[k] = c THEN r ELSE <<s[k]>>])

-----------------------------------------------------------------------------
(* Log parser: values and number parsing *)

\* A float is kept as mantissa * 10^exponent with the mantissa not divisible
\* by 10 (zero is 0 * 10^0), so that equal numbers have equal representations.
NoneVal == [t |-> "none", m |-> 0, x |-> 0, s |-> <<>>]

StrVal(txt) == [t |-> "str", m |-> 0, x |-> 0, s |-> txt]

NanVal == [t |-> "nan", m |-> 0, x |-> 0, s |-> <<>>]

InfVal(sign) == [t |-> "inf", m |-> sign, x |-> 0, s |-> <<>>]

RECURSIVE NumVal(_, _)
NumVal(m, x) ==
    IF m = 0 THEN [t |-> "num", m |-> 0, x |-> 0, s |-> <<>>]
    ELSE IF m % 10 = 0 THEN NumVal(m \div 10, x + 1)
    ELSE [t |-> "num", m |-> m, x |-> x, s |-> <<>>]

\* a digit group of a numeric literal: digits, single underscores between them
DigitGroup(s) ==
    /\ s # <<>>
    /\ \A k \in 1..Len(s) : s[k] \in Digits \cup {"_"}
    /\ s[1] # "_" /\ s[Len(s)] # "_"
    /\ \A k \in 1..(Len(s) - 1) : ~(s[k] = "_" /\ s[k + 1] = "_")

RECURSIVE IntOf(_, _)
\* the value of a digit group, acc being the value read so far
IntOf(s, acc) ==
    IF s = <<>> THEN acc
    ELSE IF Head(s) = "_" THEN IntOf(Tail(s), acc)
    ELSE IntOf(Tail(s), 10 * acc + DigitVal(Head(s)))

NumDigits(s) == Len(SelectSeq(s, LAMBDA c : c \in Digits))

HasSign(s) == s # <<>> /\ s[1] \in {"+", "-"}

Unsigned(s) == IF HasSign(s) THEN Tail(s) ELSE s

SignOf(s) == IF s # <<>> /\ s[1] = "-" THEN -1 ELSE 1

\* int(s): None when s is no integer literal
try_int(s) ==
    IF DigitGroup(Unsigned(s)) THEN NumVal(SignOf(s) * IntOf(Unsigned(s), 0), 0)
    ELSE NoneVal

\* try_float(s) = float(s), None on ValueError
try_float(s) ==
    LET body == Unsigned(s)
        low == Lower(body)
        hasExp == Contains(low, "e")
        mant == IF hasExp THEN SubSeq(body, 1, FirstIdx(low, "e") - 1) ELSE body
        expo == IF hasExp THEN SubSeq(body, FirstIdx(low, "e") + 1, Len(body)) ELSE <<>>
        parts == Split(mant, ".")
        ipart == parts[1]
        fpart == IF Len(parts) = 2 THEN parts[2] ELSE <<>>
        mantOK == /\ Len(parts) <= 2
                  /\ ipart = <<>> \/ DigitGroup(ipart)
                  /\ fpart = <<>> \/ DigitGroup(fpart)
                  /\ ipart # <<>> \/ fpart # <<>>
        expOK == ~hasExp \/ DigitGroup(Unsigned(expo))
        expVal == IF hasExp THEN SignOf(expo) * IntOf(Unsigned(expo), 0) ELSE 0
    IN  IF low \in {<<"i", "n", "f">>, <<"i", "n", "f", "i", "n", "i", "t", "y">>} THEN InfVal(SignOf(s))
        ELSE IF low = <<"n", "a", "n">> THEN NanVal
        ELSE IF mantOK /\ expOK
             THEN NumVal(SignOf(s) * IntOf(ipart \o fpart, 0), expVal - NumDigits(fpart))
             ELSE NoneVal

-----------------------------------------------------------------------------
(* Log parser: rows *)

\* a row is a dict: a function from field name to value
SetItem(row, k, v) ==
    [q \in (DOMAIN row) \cup {k} |-> IF q = k THEN v ELSE row[q]]

\* row.update(other)
Update(row, other) ==
    [q \in (DOMAIN row) \cup (DOMAIN other) |->
        IF q \in DOMAIN other THEN other[q] ELSE row[q]]

EmptyRow == <<>>

F_full_name == <<"f", "u", "l", "l", "_", "n", "a", "m", "e">>
F_benchmark == <<"b", "e", "n", "c", "h", "m", "a", "r", "k">>
F_samples_count == <<"s", "a", "m", "p", "l", "e", "s", "_", "c", "o", "u", "n", "t">>
F_ns_per_op == <<"n", "s", "_", "p", "e", "r", "_", "o", "p">>
F_bytes_per_op == <<"b", "y", "t", "e", "s", "_", "p", "e", "r", "_", "o", "p">>
F_allocs_per_op == <<"a", "l", "l", "o", "c", "s", "_", "p", "e", "r", "_", "o", "p">>

U_ns_op == <<"n", "s", "/", "o", "p">>
U_B_op == <<"B", "/", "o", "p">>
U_allocs_op == <<"a", "l", "l", "o", "c", "s", "/", "o", "p">>

RECURSIVE ChunkParams(_, _)
\* the loop over the "/"-separated chunks of parse_key_params
ChunkParams(chunks, row) ==
    IF chunks = <<>> THEN row
    ELSE LET chunk == Head(chunks)
         IN  IF Contains(chunk, "=")
             THEN LET kv == SplitOnce(chunk, "=")
                      f == try_float(kv[2])
                  IN  ChunkParams(Tail(chunks),
                          SetItem(row, Lower(kv[1]),
                                  IF f # NoneVal THEN f ELSE StrVal(kv[2])))
             ELSE ChunkParams(Tail(chunks), row)

parse_key_params(name) ==
    IF ~Contains(name, "/") THEN EmptyRow
    ELSE LET params_part == SplitOnce(name, "/")[2]
             stripped ==
                 IF Contains(params_part, "-") /\ IsDigit(RSplitOnce(params_part, "-")[2])
                 THEN RSplitOnce(params_part, "-")[1]
                 ELSE params_part
         IN  ChunkParams(Split(stripped, "/"), EmptyRow)

RECURSIVE MetricLoop(_, _, _)
\* the loop over the tokens of a line from the third token on (i is 1-based)
MetricLoop(parts, i, row) ==
    IF i > Len(parts) THEN row
    ELSE LET tok == parts[i]
             val == try_float(parts[i - 1])
             next ==
                 IF tok = U_ns_op
                 THEN (IF val # NoneVal THEN SetItem(row, F_ns_per_op, val) ELSE row)
                 ELSE IF tok = U_B_op
                 THEN (IF val # NoneVal THEN SetItem(row, F_bytes_per_op, val) ELSE row)
                 ELSE IF tok = U_allocs_op
                 THEN (IF val # NoneVal THEN SetItem(row, F_allocs_per_op, val) ELSE row)
                 ELSE IF val # NoneVal
                 THEN (IF try_float(tok) # NoneVal THEN row
                       ELSE SetItem(row, Replace(Replace(tok, "/", <<"_">>), ".", <<>>), val))
                 ELSE row
         IN  MetricLoop(parts, i + 1, next)

\* the body of parse_file's loop for one line: whether the line gives a row,
\* and the row
parse_line(line) ==
    LET parts == SplitWS(line, <<>>)
    IN  IF ~StartsWith(line, Marker) \/ Len(parts) < 4
        THEN [keep |-> FALSE, row |-> EmptyRow]
        ELSE LET full_name == parts[1]
                 row0 == SetItem(SetItem(EmptyRow, F_full_name, StrVal(full_name)),
                                 F_benchmark, StrVal(Split(full_name, "/")[1]))
                 row1 == Update(row0, parse_key_params(full_name))
                 samples == try_int(parts[2])
                 row2 == IF samples # NoneVal
                         THEN SetItem(row1, F_samples_count, samples) ELSE row1
             IN  [keep |-> TRUE, row |-> MetricLoop(parts, 3, row2)]

RECURSIVE ParseLines(_)
ParseLines(lines) ==
    IF lines = <<>> THEN <<>>
    ELSE LET r == parse_line(Head(lines))
         IN  (IF r.keep THEN <<r.row>> ELSE <<>>) \o ParseLines(Tail(lines))

\* parse_file(path); file.exists tells whether there is a file at path
parse_file(file) ==
    IF ~file.exists THEN <<>> ELSE ParseLines(file.lines)

-----------------------------------------------------------------------------
(* Log parser: the logs a parse starts from *)

MaxParams == 2
MaxLines == 2

\* "/"-separated segments of an invocation name: the text, and for a
\* "Key=Value" segment the lower-cased key and the number the value denotes
Segments ==
    <<[txt |-> <<"K", "e", "y", "S", "i", "z", "e", "=", "6", "4">>,
       lkey |-> <<"k", "e", "y", "s", "i", "z", "e">>,
       numeric |-> TRUE, num |-> NumVal(64, 0)],
      [txt |-> <<"K", "e", "y", "s", "=", "1", "0", "2", "4">>,
       lkey |-> <<"k", "e", "y", "s">>,
       numeric |-> TRUE, num |-> NumVal(1024, 0)],
      [txt |-> <<"K", "E", "Y", "S", "=", "5", ".", "0">>,
       lkey |-> <<"k", "e", "y", "s">>,
       numeric |-> TRUE, num |-> NumVal(5, 0)],
      [txt |-> <<"B", "e", "n", "c", "h", "m", "a", "r", "k", "=", "7">>,
       lkey |-> <<"b", "e", "n", "c", "h", "m", "a", "r", "k">>,
       numeric |-> TRUE, num |-> NumVal(7, 0)],
      [txt |-> <<"E", "p", "s", "=", "1", "e", "-", "5">>,
       lkey |-> <<"e", "p", "s">>,
       numeric |-> TRUE, num |-> NumVal(1, 0 - 5)],
      [txt |-> <<"M", "o", "d", "e", "=", "f", "a", "s", "t">>,
       lkey |-> <<"m", "o", "d", "e">>,
       numeric |-> FALSE, num |-> NoneVal],
      [txt |-> <<"s", "u", "b">>,
       lkey |-> <<>>,
       numeric |-> FALSE, num |-> NoneVal] >>

\* the tokens after the invocation name; form marks
\* "count a ns/op b B/op c allocs/op" and a, b, c are the numbers written
Rests ==
    { [toks |-> <<<<"1", "0", "0">>,
                   <<"2", "3", "4">>,
                   <<"n", "s", "/", "o", "p">>,
                   <<"5", "1", "2">>,
                   <<"B", "/", "o", "p">>,
                   <<"3">>,
                   <<"a", "l", "l", "o", "c", "s", "/", "o", "p">>>>,
       form |-> TRUE, a |-> NumVal(234, 0), b |-> NumVal(512, 0), c |-> NumVal(3, 0)],
      [toks |-> <<<<"1", "0", "0">>,
                   <<"2", ".", "5">>,
                   <<"n", "s", "/", "o", "p">>,
                   <<"0">>,
                   <<"B", "/", "o", "p">>,
                   <<"1", "e", "3">>,
                   <<"a", "l", "l", "o", "c", "s", "/", "o", "p">>>>,
       form |-> TRUE, a |-> NumVal(25, 0 - 1), b |-> NumVal(0, 0), c |-> NumVal(1, 3)],
      [toks |-> <<<<"1", "0", "0">>,
                   <<"2", "3", "4">>,
                   <<"n", "s", "/", "o", "p">>>>,
       form |-> FALSE, a |-> NoneVal, b |-> NoneVal, c |-> NoneVal],
      [toks |-> <<<<"1", "0", "0">>,
                   <<"2", "3", "4">>,
                   <<"n", "s", "/", "o", "p">>,
                   <<"8", "8", ".", "0">>,
                   <<"b", "i", "t", "s", "/", "k", "e", "y">>>>,
       form |-> FALSE, a |-> NoneVal, b |-> NoneVal, c |-> NoneVal],
      [toks |-> <<<<"1", "0", "0">>,
                   <<"b", "i", "t", "s", "/", "k", "e", "y">>,
                   <<"5">>,
                   <<"n", "s", "/", "o", "p">>>>,
       form |-> FALSE, a |-> NoneVal, b |-> NoneVal, c |-> NoneVal],
      [toks |-> <<<<"1", "0", "0">>,
                   <<"2", "3", "4">>,
                   <<"n", "s", "/", "o", "p">>,
                   <<"7">>,
                   <<"9">>>>,
       form |-> FALSE, a |-> NoneVal, b |-> NoneVal, c |-> NoneVal],
      [toks |-> <<<<"1", "0", "0">>,
                   <<"2", "3", "4">>,
                   <<"n", "s", "/", "o", "p">>,
                   <<"5">>,
                   <<"b", "e", "n", "c", "h", "m", "a", "r", "k">>>>,
       form |-> FALSE, a |-> NoneVal, b |-> NoneVal, c |-> NoneVal],
      [toks |-> <<<<"1", "0", "0">>>>,
       form |-> FALSE, a |-> NoneVal, b |-> NoneVal, c |-> NoneVal],
      [toks |-> <<<<"N">>,
                   <<"2", "3", "4">>,
                   <<"n", "s", "/", "o", "p">>>>,
       form |-> FALSE, a |-> NoneVal, b |-> NoneVal, c |-> NoneVal],
      [toks |-> <<<<"1", "0", "0">>,
                   <<"x">>,
                   <<"n", "s", "/", "o", "p">>,
                   <<"3">>,
                   <<"v", "1", ".", "2">>>>,
       form |-> FALSE, a |-> NoneVal, b |-> NoneVal, c |-> NoneVal] }

Suffixes == {<<>>, <<"-", "8">>}

\* lines that surround the line under study
Fillers ==
    << <<"o", "k", " ", " ", "\t", "p", "k", "g", "\t", "0", ".", "0", "1", "s", "\n">>,
       <<"B", "e", "n", "c", "h", "m", "a", "r", "k", "X", " ", "1", "\n">>,
       <<"B", "e", "n", "c", "h", "m", "a", "r", "k", "Y", "-", "8", " ", "1", " ", "5", " ", "n", "s", "/", "o", "p", "\n">> >>

RECURSIVE Ascending(_)
\* the members of a set of integers, in increasing order
Ascending(S) ==
    IF S = {} THEN <<>>
    ELSE LET lo == CHOOSE a \in S : \A b \in S : a <= b
         IN  <<lo>> \o Ascending(S \ {lo})

\* up to MaxParams segments, in the order of the table
SegmentLists ==
    { [k \in 1..Cardinality(S) |-> Segments[Ascending(S)[k]]] :
        S \in {T \in SUBSET (1..Len(Segments)) : Cardinality(T) <= MaxParams} }

\* up to MaxLines - 1 copies of one filler line before the line under study
Prefixes ==
    { [k \in 1..n |-> f] : n \in 0..(MaxLines - 1), f \in 1..Len(Fillers) }

Subjects ==
    [name : {BenchX}, segs : SegmentLists, suffix : Suffixes, rest : Rests]

LogInputs == [exists : {TRUE}, prefix : Prefixes, subject : Subjects]

\* the input standing for a path at which there is no file
MissingInput ==
    [exists |-> FALSE, prefix |-> <<>>,
     subject |-> [name |-> BenchX, segs |-> <<>>, suffix |-> <<>>,
                  rest |-> CHOOSE r \in Rests : r.form /\ r.a = NumVal(234, 0)]]

RECURSIVE JoinWith(_, _)
\* sep.join(ss)
JoinWith(ss, sep) ==
    IF ss = <<>> THEN <<>>
    ELSE IF Len(ss) = 1 THEN ss[1]
    ELSE ss[1] \o sep \o JoinWith(Tail(ss), sep)

\* the text of the line a subject stands for
RenderLine(d) ==
    JoinWith(<<d.name>> \o [k \in 1..Len(d.segs) |-> d.segs[k].txt], <<"/">>)
        \o d.suffix \o <<" ">> \o JoinWith(d.rest.toks, <<" ">>) \o <<"\n">>

RenderLog(inp) ==
    [exists |-> inp.exists,
     lines |-> [k \in 1..Len(inp.prefix) |-> Fillers[inp.prefix[k]]]
                  \o <<RenderLine(inp.subject)>>]

\* the orchestrator is idle while a log is parsed
RunnerIdle ==
    /\ modules = <<>> /\ count = 0 /\ jobs = 1 /\ split = FALSE
    /\ driver = "lib" /\ listOut = <<>> /\ pc = "idle" /\ mi = 1
    /\ all_benchmarks = <<>> /\ bi = 1 /\ ii = 0 /\ tasks = <<>>
    /\ temp_files_map = <<>> /\ fs = <<>> /\ mj = 0 /\ reordered = FALSE

ParseInit ==
    /\ RunnerIdle
    /\ CallIdle
    /\ logInput \in LogInputs \cup {MissingInput}
    /\ logFile = RenderLog(logInput)
    /\ rows = <<>>
    /\ rowLine = <<>>
    /\ ppc = "start"

\* the indices of the lines parse_file's loop turns into rows
KeptLines(file) ==
    IF ~file.exists THEN <<>>
    ELSE SelectSeq([k \in 1..Len(file.lines) |-> k],
                   LAMBDA k : parse_line(file.lines[k]).keep)

DoParseFile ==
    /\ ppc = "start"
    /\ rows' = parse_file(logFile)
    /\ rowLine' = KeptLines(logFile)
    /\ ppc' = "parsed"
    /\ UNCHANGED <<runnerVars, callVars, logInput, logFile>>

ParseNext == DoParseFile

ParseSpec == ParseInit /\ [][ParseNext]_vars

-----------------------------------------------------------------------------
(* Library calls studied on their own: every specification of this part    *)
(* draws the arguments of one call in its initial state and has one action *)
(* that makes the call.                                                    *)

\* nothing but the call under study runs
OnlyCall == RunnerIdle /\ ParserIdle

-----------------------------------------------------------------------------
(* parse_key_params on a name with and without the "-P" suffix *)

MaxProcs == 3

\* invocation names as `go test` prints them when GOMAXPROCS is 1: no suffix
PlainNames ==
    { [name |-> BenchX, segs |-> sl] : sl \in SegmentLists }

NameText(d) ==
    JoinWith(<<d.name>> \o [k \in 1..Len(d.segs) |-> d.segs[k].txt], <<"/">>)

KeyParamsInit ==
    /\ OnlyCall
    /\ \E d \in PlainNames, P \in 1..MaxProcs :
          call = [fn |-> "parse_key_params", subject |-> d, procs |-> P]
    /\ ret = [fn |-> "none"]
    /\ cpc = "called"

\* the name is parsed as written and again with "-P" appended
DoParseKeyParams ==
    /\ cpc = "called"
    /\ call.fn = "parse_key_params"
    /\ ret' = [fn |-> "parse_key_params",
               plain |-> parse_key_params(NameText(call.subject)),
               suffixed |-> parse_key_params(NameText(call.subject)
                                               \o <<"-">> \o StrInt(call.procs))]
    /\ cpc' = "returned"
    /\ UNCHANGED <<runnerVars, parserVars, call>>

KeyParamsNext == DoParseKeyParams

KeyParamsSpec == KeyParamsInit /\ [][KeyParamsNext]_vars

-----------------------------------------------------------------------------
(* aggregate (scripts/bench_lib/parser.py) *)

F_samples == <<"s", "a", "m", "p", "l", "e", "s">>
F_keysize == <<"k", "e", "y", "s", "i", "z", "e">>
F_keys == <<"k", "e", "y", "s">>
F_mode == <<"m", "o", "d", "e">>
F_bits_key == <<"b", "i", "t", "s", "_", "k", "e", "y">>

\* a record lacking the field is read as 0
GetZero(r, k) == IF k \in DOMAIN r THEN r[k] ELSE NumVal(0, 0)

\* r.get(k)
Get(r, k) == IF k \in DOMAIN r THEN r[k] ELSE NoneVal

\* tuple(key_vals)
KeyOf(r, group_keys) == [i \in 1..Len(group_keys) |-> Get(r, group_keys[i])]

RECURSIVE GroupLoop(_, _, _, _)
\* the loop filling `grouped`: the groups in the order their keys first
\* appear, each with the indices of its records in input order
GroupLoop(rws, group_keys, n, grouped) ==
    IF n > Len(rws) THEN grouped
    ELSE LET key == KeyOf(rws[n], group_keys)
             at == {g \in 1..Len(grouped) : grouped[g].key = key}
         IN  GroupLoop(rws, group_keys, n + 1,
                 IF at = {}
                 THEN Append(grouped, [key |-> key, members |-> <<n>>])
                 ELSE [g \in 1..Len(grouped) |->
                          IF g \in at
                          THEN [grouped[g] EXCEPT !.members = Append(@, n)]
                          ELSE grouped[g]])

Grouped(rws, group_keys) == GroupLoop(rws, group_keys, 1, <<>>)

\* isinstance(v, (int, float))
IsNumber(v) == v.t \in {"num", "nan", "inf"}

RECURSIVE Pow10(_)
Pow10(n) == IF n = 0 THEN 1 ELSE 10 * Pow10(n - 1)

\* the integer a * 10^-e, for e at most the exponent of a
AtScale(a, e) == a.m * Pow10(a.x - e)

MinExp(a, b) == IF a.x <= b.x THEN a.x ELSE b.x

\* a <= b
NumLeq(a, b) == AtScale(a, MinExp(a, b)) <= AtScale(b, MinExp(a, b))

\* (a + b) / 2
Mean2(a, b) ==
    NumVal((AtScale(a, MinExp(a, b)) + AtScale(b, MinExp(a, b))) * 5,
           MinExp(a, b) - 1)

RECURSIVE Insert(_, _)
Insert(sorted, v) ==
    IF sorted = <<>> THEN <<v>>
    ELSE IF NumLeq(v, Head(sorted)) THEN <<v>> \o sorted
    ELSE <<Head(sorted)>> \o Insert(Tail(sorted), v)

RECURSIVE Sorted(_)
\* sorted(data)
Sorted(data) ==
    IF data = <<>> THEN <<>> ELSE Insert(Sorted(Tail(data)), Head(data))

\* statistics.median_low: the lower of the two middle values
MedianLow(data) == Sorted(data)[(Len(data) + 1) \div 2]

\* statistics.median
Median(data) ==
    LET d == Sorted(data)
        n == Len(d)
    IN  IF n % 2 = 1 THEN d[(n + 1) \div 2]
        ELSE Mean2(d[n \div 2], d[n \div 2 + 1])

\* the field of every record of the group, a lacking record counted as 0
ValsZeroFilled(rws, members, k) ==
    [j \in 1..Len(members) |-> GetZero(rws[members[j]], k)]

\* as Vals, but only for a field every record of the group holds
ValsIfAll(rws, members, k) ==
    IF \A j \in 1..Len(members) : k \in DOMAIN rws[members[j]]
    THEN [j \in 1..Len(members) |-> rws[members[j]][k]]
    ELSE <<>>

\* [r[k] for r in group if k in r and isinstance(r[k], (int, float))]
Vals(rws, members, k) ==
    LET carriers == SelectSeq(members,
                        LAMBDA m : k \in DOMAIN rws[m] /\ IsNumber(rws[m][k]))
    IN  [j \in 1..Len(carriers) |-> rws[carriers[j]][k]]

\* k in group_keys or k in ["full_name", "samples", "samples_count"]
Skipped(k, group_keys) ==
    \/ \E i \in 1..Len(group_keys) : group_keys[i] = k
    \/ k \in {F_full_name, F_samples, F_samples_count}

RECURSIVE KeyFields(_, _, _, _)
\* for i, k in enumerate(group_keys): res[k] = g_key[i]
KeyFields(group_keys, g_key, i, res) ==
    IF i > Len(group_keys) THEN res
    ELSE KeyFields(group_keys, g_key, i + 1, SetItem(res, group_keys[i], g_key[i]))

\* the summary row of one group
SummaryRow(rws, group_keys, g) ==
    LET res == SetItem(KeyFields(group_keys, g.key, 1, EmptyRow),
                       F_samples, NumVal(Len(g.members), 0))
        all_metric_keys ==
            UNION {DOMAIN rws[g.members[j]] : j \in 1..Len(g.members)}
        medians == {k \in all_metric_keys :
                       /\ ~Skipped(k, group_keys)
                       /\ Vals(rws, g.members, k) # <<>>}
    IN  [k \in (DOMAIN res) \cup medians |->
            IF k \in medians THEN Median(Vals(rws, g.members, k)) ELSE res[k]]

aggregate(rws, group_keys) ==
    LET grouped == Grouped(rws, group_keys)
    IN  [g \in 1..Len(grouped) |-> SummaryRow(rws, group_keys, grouped[g])]

-----------------------------------------------------------------------------
(* aggregate: the calls it is studied on *)

MaxRows == 4

\* the fields parse_file gives every row of a line "name N ..."
BaseRow(b, tail, n) ==
    (F_full_name :> StrVal(b \o tail)) @@ (F_benchmark :> StrVal(b))
        @@ (F_samples_count :> NumVal(n, 0))

\* rows as parse_file returns them
AggRecords ==
    << BaseRow(BenchX, <<"/">> \o Segments[1].txt \o <<"-", "8">>, 100)
           @@ (F_keysize :> NumVal(64, 0)) @@ (F_ns_per_op :> NumVal(100, 0)),
       BaseRow(BenchX, <<"/">> \o Segments[1].txt \o <<"-", "8">>, 100)
           @@ (F_keysize :> NumVal(64, 0)) @@ (F_ns_per_op :> NumVal(300, 0))
           @@ (F_bits_key :> NumVal(88, 0)),
       BaseRow(BenchX, <<"/">> \o Segments[1].txt \o <<"/">> \o Segments[6].txt, 50)
           @@ (F_keysize :> NumVal(64, 0)) @@ (F_mode :> StrVal(<<"f", "a", "s", "t">>))
           @@ (F_ns_per_op :> NumVal(250, 0)),
       BaseRow(BenchX, <<>>, 100)
           @@ (F_ns_per_op :> NumVal(45, 0)),
       BaseRow(BenchX, <<"/", "K", "e", "y", "S", "i", "z", "e", "=", "0">>, 100)
           @@ (F_keysize :> NumVal(0, 0)) @@ (F_ns_per_op :> NumVal(7, 0)),
       BaseRow(BenchY, <<"/">> \o Segments[1].txt \o <<"-", "8">>, 20)
           @@ (F_keysize :> NumVal(64, 0)) @@ (F_bits_key :> NumVal(3, 0)) >>

\* the group keys of trie/benchmarks/analyze.py, and two shorter lists
GroupKeyLists ==
    {<<F_benchmark, F_keysize, F_keys>>, <<F_benchmark>>, <<F_keysize>>}

AggInputs ==
    UNION {[1..n -> 1..Len(AggRecords)] : n \in 0..MaxRows}

AggInit ==
    /\ OnlyCall
    /\ \E picks \in AggInputs, gk \in GroupKeyLists :
          call = [fn |-> "aggregate",
                  rows |-> [j \in 1..Len(picks) |-> AggRecords[picks[j]]],
                  group_keys |-> gk]
    /\ ret = [fn |-> "none"]
    /\ cpc = "called"

\* one call of aggregate; `grouped` is kept next to the rows it returns
DoAggregate ==
    /\ cpc = "called"
    /\ call.fn = "aggregate"
    /\ ret' = [fn |-> "aggregate",
               grouped |-> Grouped(call.rows, call.group_keys),
               agg_rows |-> aggregate(call.rows, call.group_keys)]
    /\ cpc' = "returned"
    /\ UNCHANGED <<runnerVars, parserVars, call>>

AggNext == DoAggregate

AggSpec == AggInit /\ [][AggNext]_vars

-----------------------------------------------------------------------------
(* flatten_report (locators/benchmarks/analyze.py) *)

MaxNodes == 3

\* component names: the four whose subtrees the walk does not enter, the two
\* headers, and two names the walk does not know
NodeNames ==
    {"hzft", "rsdic_bv", "ApproxZFastTrie", "buckets",
     "header", "Top_Level_Header", "LERLOC", "aux"}

\* A report tree is kept as the sequence of its nodes, parents before
\* children: node 1 is the root (parent 0) and every other node names an
\* earlier node as its parent.
ParentMaps ==
    UNION { {par \in [1..n -> 0..(n - 1)] :
                \A j \in 1..n : IF j = 1 THEN par[j] = 0
                                ELSE par[j] >= 1 /\ par[j] < j}
            : n \in 1..MaxNodes }

\* node.get("children", [])
ChildrenOf(par, i) ==
    SelectSeq([j \in 1..Len(par) |-> j], LAMBDA j : par[j] = i)

RECURSIVE TotalOf(_, _), TotalOfAll(_, _)
\* the bytes a consistent report states for node i: its own (i - 1 here) and
\* the totals of its children
TotalOf(par, i) == (i - 1) + TotalOfAll(par, ChildrenOf(par, i))

TotalOfAll(par, kids) ==
    IF kids = <<>> THEN 0
    ELSE TotalOf(par, Head(kids)) + TotalOfAll(par, Tail(kids))

ReportTrees ==
    UNION { {[j \in 1..Len(par) |->
                 [name |-> names[j], parent |-> par[j],
                  total_bytes |-> TotalOf(par, j)]]
             : names \in [1..Len(par) -> NodeNames]}
            : par \in ParentMaps }

NoBuckets ==
    [HZFastTrie |-> 0, Leaf_BitVector |-> 0, MMPH_Trie |-> 0,
     MMPH_Buckets |-> 0, Other |-> 0]

\* the children of node i in the tree
Kids(data, i) ==
    SelectSeq([j \in 1..Len(data) |-> j], LAMBDA j : data[j].parent = i)

RECURSIVE walk(_, _, _), WalkAll(_, _, _)
walk(data, i, out) ==
    LET name == data[i].name
        bytes == data[i].total_bytes
    IN  IF name = "hzft" THEN [out EXCEPT !.HZFastTrie = @ + bytes]
        ELSE IF name = "rsdic_bv" THEN [out EXCEPT !.Leaf_BitVector = @ + bytes]
        ELSE IF name = "ApproxZFastTrie" THEN [out EXCEPT !.MMPH_Trie = @ + bytes]
        ELSE IF name = "buckets" THEN [out EXCEPT !.MMPH_Buckets = @ + bytes]
        ELSE WalkAll(data, Kids(data, i),
                     IF name \in {"header", "Top_Level_Header"}
                     THEN [out EXCEPT !.Other = @ + bytes]
                     ELSE out)

\* for child in node.get("children", []): walk(child)
WalkAll(data, kids, out) ==
    IF kids = <<>> THEN out
    ELSE WalkAll(data, Tail(kids), walk(data, Head(kids), out))

BucketSum(out) ==
    out.HZFastTrie + out.Leaf_BitVector + out.MMPH_Trie + out.MMPH_Buckets + out.Other

flatten_report(data) ==
    LET total == data[1].total_bytes
        out == walk(data, 1, NoBuckets)
        known_sum == BucketSum(out)
    IN  IF known_sum < total
        THEN [out EXCEPT !.Other = @ + (total - known_sum)]
        ELSE out

FlattenInit ==
    /\ OnlyCall
    /\ \E data \in ReportTrees : call = [fn |-> "flatten_report", data |-> data]
    /\ ret = [fn |-> "none"]
    /\ cpc = "called"

DoFlattenReport ==
    /\ cpc = "called"
    /\ call.fn = "flatten_report"
    /\ ret' = [fn |-> "flatten_report", out |-> flatten_report(call.data)]
    /\ cpc' = "returned"
    /\ UNCHANGED <<runnerVars, parserVars, call>>

FlattenNext == DoFlattenReport

FlattenSpec == FlattenInit /\ [][FlattenNext]_vars

-----------------------------------------------------------------------------
(* Chart rendering (scripts/bench_lib/plotter.py) *)
(*                                                                         *)
(* A series map is a sequence of point lists in declaration order, a point *)
(* is <<x, y>> with integer coordinates.  A pixel coordinate is kept as the *)
(* fraction t of the plot width (or height) it lies at: left + t * pw for   *)
(* x, top + ph - t * ph for y.                                              *)

RECURSIVE Gcd(_, _)
Gcd(a, b) == IF b = 0 THEN a ELSE Gcd(b, a % b)

Abs(a) == IF a < 0 THEN 0 - a ELSE a

\* the fraction a / b in lowest terms with a positive denominator (b # 0)
Frac(a, b) ==
    LET g == Gcd(Abs(a), Abs(b))
        sgn == IF b < 0 THEN 0 - 1 ELSE 1
    IN  [k |-> "frac", a |-> sgn * (a \div g), b |-> sgn * (b \div g)]

\* a position that is a fraction of logarithms with no closed form
LogFrac(v, lo, hi) == [k |-> "log", a |-> v, b |-> <<lo, hi>>]

SetMin(S) == CHOOSE a \in S : \A b \in S : a <= b

SetMax(S) == CHOOSE a \in S : \A b \in S : a >= b

Max2(a, b) == IF a >= b THEN a ELSE b

\* the points of every series, one after the other
AllPoints(series) == Flatten(series)

\* sorted({x for pts in series.values() for x, _ in pts})
XVals(series) ==
    Ascending({AllPoints(series)[j][1] : j \in 1..Len(AllPoints(series))})

RECURSIVE Log2(_)
\* math.log2(x) for x a power of two, the only positive x the charts of the
\* model are given
Log2(x) == IF x <= 1 THEN 0 ELSE 1 + Log2(x \div 2)

RECURSIVE FloorLog10(_)
\* math.floor(math.log10(n)) for an integer n >= 1
FloorLog10(n) == IF n < 10 THEN 0 ELSE 1 + FloorLog10(n \div 10)

RECURSIVE CeilLog10Tenths(_, _)
\* math.ceil(math.log10(n / 10)) for an integer n >= 10: the least p >= p0
\* with 10^(p + 1) >= n
CeilLog10Tenths(n, p0) ==
    IF Pow10(p0 + 1) >= n THEN p0 ELSE CeilLog10Tenths(n, p0 + 1)

RECURSIVE InsertPoint(_, _)
InsertPoint(sorted, pt) ==
    IF sorted = <<>> THEN <<pt>>
    ELSE IF pt[1] < Head(sorted)[1] THEN <<pt>> \o sorted
    ELSE <<Head(sorted)>> \o InsertPoint(Tail(sorted), pt)

RECURSIVE SortByX(_)
\* sorted(pts, key=lambda t: t[0]): stable, points of equal x keep their order
SortByX(pts) ==
    IF pts = <<>> THEN <<>>
    ELSE InsertPoint(SortByX(SubSeq(pts, 1, Len(pts) - 1)), pts[Len(pts)])

\* what a chart function leaves behind when it returns before drawing
NoArtifact == [raised |-> "none", written |-> FALSE, grid |-> <<>>, shapes |-> <<>>]

\* what it leaves behind when an exception ends it: svg_finish is not reached
Raised(exc) == [raised |-> exc, written |-> FALSE, grid |-> <<>>, shapes |-> <<>>]

\* len(palette)
PaletteLen == 7

\* the distance between two legend entries: ly = legend_y + idx * 18
LegendStep == 18

\* a palette that stays at its last colour
PaletteIndexCapped(idx) == IF idx < PaletteLen THEN idx ELSE PaletteLen - 1

\* color = palette[idx % len(palette)], as the index into palette
PaletteIndex(idx) == idx % PaletteLen

\* draw_line_chart: the vertical grid lines and, per series that has points,
\* its colour, the offset of its legend entry below legend_y and its circles
\* in plotting order
draw_line_chart(series, log_x, log_y) ==
    LET x_vals == XVals(series)
        pts == AllPoints(series)
        y_values == {pts[j][2] : j \in 1..Len(pts)}
        pos_y == IF {y \in y_values : y > 0} = {} THEN {1}
                 ELSE {y \in y_values : y > 0}
        log_min == FloorLog10(SetMin(pos_y))
        log_top == CeilLog10Tenths(11 * SetMax(pos_y), 0)
        log_max == IF log_top <= log_min THEN log_min + 1 ELSE log_top
        y_max_tenths == Max2(10, 11 * SetMax(y_values))
        x_min_val == x_vals[1]
        x_max_val == x_vals[Len(x_vals)]
        x_pos(x) ==
            IF x_max_val = x_min_val THEN Frac(1, 2)
            ELSE IF log_x
                 THEN Frac(Log2(x) - Log2(x_min_val),
                           Log2(x_max_val) - Log2(x_min_val))
                 ELSE Frac(x - x_min_val, x_max_val - x_min_val)
        y_pos(y) ==
            IF log_y
            THEN (IF y <= 0 THEN Frac(0, 1) ELSE LogFrac(y, log_min, log_max))
            ELSE Frac(10 * y, y_max_tenths)
        drawn == SelectSeq([i \in 1..Len(series) |-> i],
                           LAMBDA i : series[i] # <<>>)
    IN  IF x_vals = <<>> THEN NoArtifact
        ELSE IF log_x /\ x_max_val # x_min_val /\ x_min_val <= 0
        THEN Raised("ValueError")
        ELSE [raised |-> "none",
              written |-> TRUE,
              grid |-> [j \in 1..Len(x_vals) |->
                           [x |-> x_vals[j], px |-> x_pos(x_vals[j])]],
              shapes |-> [d \in 1..Len(drawn) |->
                            [series |-> drawn[d],
                             color |-> PaletteIndex(drawn[d] - 1),
                             legend_dy |-> LegendStep * (drawn[d] - 1),
                             points |->
                                [j \in 1..Len(series[drawn[d]]) |->
                                    LET pt == SortByX(series[drawn[d]])[j]
                                    IN  [px |-> x_pos(pt[1]), py |-> y_pos(pt[2])]]]]]

\* {x: y for x, y in series[name]}.get(x, 0.0): the last point at x counts
PointAt(pts, x) ==
    LET at == {j \in 1..Len(pts) : pts[j][1] = x}
    IN  IF at = {} THEN 0 ELSE pts[SetMax(at)][2]

\* every layer at its own height, nothing stacked
StackAtOwn(series, x, i) == [j \in 1..i |-> PointAt(series[j], x)]

RECURSIVE StackAt(_, _, _)
\* stacked_y[x][0..i]
StackAt(series, x, i) ==
    IF i = 0 THEN <<>>
    ELSE LET below == StackAt(series, x, i - 1)
             prev_y == IF i > 1 THEN below[i - 1] ELSE 0
         IN  Append(below, prev_y + PointAt(series[i], x))

Reversed(q) == [j \in 1..Len(q) |-> q[Len(q) + 1 - j]]

\* draw_stacked_area_chart: the vertical grid lines and the polygons in the
\* order they are drawn, top layer first
draw_stacked_area_chart(series, log_x) ==
    LET all_x == XVals(series)
        n == Len(series)
        stacked_y == [x \in {all_x[j] : j \in 1..Len(all_x)} |-> StackAt(series, x, n)]
        max_y == SetMax({stacked_y[x][n] : x \in DOMAIN stacked_y})
        x_min_val == all_x[1]
        x_max_val == all_x[Len(all_x)]
        x_pos(x) ==
            IF x_max_val = x_min_val THEN Frac(1, 2)
            ELSE IF log_x
                 THEN Frac(Log2(Max2(1, x)) - Log2(Max2(1, x_min_val)),
                           Log2(Max2(1, x_max_val)) - Log2(Max2(1, x_min_val)))
                 ELSE Frac(x - x_min_val, x_max_val - x_min_val)
        y_pos(y) == Frac(10 * y, 11 * max_y)
        polygon(i) ==
            [j \in 1..Len(all_x) |->
                [px |-> x_pos(all_x[j]), py |-> y_pos(stacked_y[all_x[j]][i])]]
            \o (IF i > 1
                THEN [j \in 1..Len(all_x) |->
                        [px |-> x_pos(Reversed(all_x)[j]),
                         py |-> y_pos(stacked_y[Reversed(all_x)[j]][i - 1])]]
                ELSE <<[px |-> x_pos(x_max_val), py |-> Frac(0, 1)],
                       [px |-> x_pos(x_min_val), py |-> Frac(0, 1)]>>)
    IN  IF all_x = <<>> THEN NoArtifact
        ELSE IF max_y = 0 THEN Raised("ZeroDivisionError")
        ELSE IF /\ log_x /\ x_max_val # x_min_val
                /\ Max2(1, x_max_val) = Max2(1, x_min_val)
        THEN Raised("ZeroDivisionError")
        ELSE [raised |-> "none",
              written |-> TRUE,
              grid |-> [j \in 1..Len(all_x) |->
                           [x |-> all_x[j], px |-> x_pos(all_x[j])]],
              shapes |-> [d \in 1..n |->
                            [series |-> n + 1 - d, points |-> polygon(n + 1 - d)]]]

-----------------------------------------------------------------------------
(* Chart rendering: the calls it is studied on *)

MaxSeries == 2

\* point lists a series may hold: none, single points (y zero, positive,
\* negative), two x in and out of order, an x that is not positive, the same
\* x twice
PointLists ==
    << <<>>,
       << <<4, 0>> >>,
       << <<4, 2>> >>,
       << <<4, 0 - 2>> >>,
       << <<1, 1>>, <<2, 3>> >>,
       << <<2, 1>>, <<1, 2>> >>,
       << <<0, 1>>, <<1, 2>> >>,
       << <<4, 2>>, <<4, 3>> >> >>

SeriesMaps ==
    UNION { {[i \in 1..n |-> PointLists[pick[i]]] : pick \in [1..n -> 1..Len(PointLists)]}
            : n \in 0..MaxSeries }

ChartInit ==
    /\ OnlyCall
    /\ \E sm \in SeriesMaps, lx \in BOOLEAN, ly \in BOOLEAN :
          \/ call = [fn |-> "draw_line_chart", series |-> sm, log_x |-> lx, log_y |-> ly]
          \/ /\ ly = FALSE
             /\ call = [fn |-> "draw_stacked_area_chart", series |-> sm,
                        log_x |-> lx, log_y |-> FALSE]
    /\ ret = [fn |-> "none"]
    /\ cpc = "called"

DoDrawLineChart ==
    /\ cpc = "called"
    /\ call.fn = "draw_line_chart"
    /\ ret' = draw_line_chart(call.series, call.log_x, call.log_y)
    /\ cpc' = "returned"
    /\ UNCHANGED <<runnerVars, parserVars, call>>

DoDrawStackedAreaChart ==
    /\ cpc = "called"
    /\ call.fn = "draw_stacked_area_chart"
    /\ ret' = draw_stacked_area_chart(call.series, call.log_x)
    /\ cpc' = "returned"
    /\ UNCHANGED <<runnerVars, parserVars, call>>

ChartNext == DoDrawLineChart \/ DoDrawStackedAreaChart

ChartSpec == ChartInit /\ [][ChartNext]_vars

\* line charts of many series: series i has the one point (i, i) or none
MaxLegendSeries == 8

LegendInit ==
    /\ OnlyCall
    /\ \E n \in 0..MaxLegendSeries, ly \in BOOLEAN :
          \E S \in SUBSET (1..n) :
             call = [fn |-> "draw_line_chart",
                     series |-> [i \in 1..n |-> IF i \in S THEN << <<i, i>> >> ELSE <<>>],
                     log_x |-> FALSE, log_y |-> ly]
    /\ ret = [fn |-> "none"]
    /\ cpc = "called"

LegendNext == DoDrawLineChart

LegendSpec == LegendInit /\ [][LegendNext]_vars

-----------------------------------------------------------------------------
(* The pipeline drivers: main and the line that calls it                   *)
(* (rloc/benchmarks/analyze.py, locators/benchmarks/analyze.py,            *)
(* trie/benchmarks/analyze.py)                                             *)

F_module == <<"m", "o", "d", "u", "l", "e">>
F_prefixlen == <<"p", "r", "e", "f", "i", "x", "l", "e", "n">>

\* the module names of each driver's MODULES
DriverModules ==
    [rloc |-> << <<"r", "l", "o", "c">> >>,
     locators |-> << <<"r", "l", "o", "c">>,
                     <<"l", "e", "r", "l", "o", "c">>,
                     <<"m", "m", "p", "h">> >>,
     trie |-> << <<"t", "r", "i", "e", "_", "b", "u", "i", "l", "d", "e", "r">> >>]

Drivers == DOMAIN DriverModules

\* logs a module's output path may hold when main parses it: no file, a file
\* without a benchmark result line, one result line, noise and two result lines
DriverLogs ==
    << [exists |-> FALSE, lines |-> <<>>],
       [exists |-> TRUE, lines |-> <<Fillers[1], Fillers[2]>>],
       [exists |-> TRUE, lines |-> <<Fillers[3]>>],
       [exists |-> TRUE,
        lines |-> <<Fillers[1],
                    RenderLine([name |-> BenchX, segs |-> <<Segments[1]>>,
                                suffix |-> <<"-", "8">>, rest |-> MissingInput.subject.rest]),
                    Fillers[3]>>] >>

\* for r in rows: r["module"] = mod["name"], in the drivers that tag their rows
TagRows(d, name, parsed) ==
    IF d = "trie" THEN parsed
    ELSE [k \in 1..Len(parsed) |-> SetItem(parsed[k], F_module, StrVal(name))]

\* rows = parser.parse_file(mod["out"]), tagged
ModuleRows(d, name, log) == TagRows(d, name, parse_file(log))

\* the group keys each main passes to aggregate
DriverGroupKeys(d) ==
    IF d = "trie" THEN <<F_benchmark, F_keysize, F_keys>>
    ELSE <<F_benchmark, F_keysize, F_keys, F_prefixlen>>

\* the status of the process when main has returned v: trie's script ends with
\* sys.exit(main()), the other two with a bare main()
ExitStatus(d, v) == IF d = "trie" THEN v ELSE 0

DriverInit ==
    /\ OnlyCall
    /\ \E d \in Drivers :
         \E picks \in [1..Len(DriverModules[d]) -> 1..Len(DriverLogs)] :
            call = [fn |-> "main", driver |-> d,
                    logs |-> [m \in 1..Len(DriverModules[d]) |-> DriverLogs[picks[m]]]]
    /\ ret = [fn |-> "main", all_rows |-> <<>>, no_data |-> FALSE,
              reported |-> FALSE, agg_rows |-> <<>>, value |-> 0, status |-> 0]
    /\ cpc = "called"

\* 2. Parse Results
DriverParse ==
    /\ cpc = "called"
    /\ call.fn = "main"
    /\ ret' = [ret EXCEPT !.all_rows =
                  Flatten([m \in 1..Len(call.logs) |->
                              ModuleRows(call.driver, DriverModules[call.driver][m],
                                         call.logs[m])])]
    /\ cpc' = "parsed"
    /\ UNCHANGED <<runnerVars, parserVars, call>>

\* if not all_rows: print("No data found ..."); return 1
DriverNoData ==
    /\ cpc = "parsed"
    /\ ret.all_rows = <<>>
    /\ ret' = [ret EXCEPT !.no_data = TRUE, !.value = 1]
    /\ cpc' = "returned"
    /\ UNCHANGED <<runnerVars, parserVars, call>>

\* the CSV files, aggregate and the plots, then return 0; the rows of the
\* logs above match none of the plot filters, so no chart function is given
\* a point
DriverReport ==
    /\ cpc = "parsed"
    /\ ret.all_rows # <<>>
    /\ ret' = [ret EXCEPT !.reported = TRUE,
                          !.agg_rows = aggregate(ret.all_rows, DriverGroupKeys(call.driver)),
                          !.value = 0]
    /\ cpc' = "returned"
    /\ UNCHANGED <<runnerVars, parserVars, call>>

\* the script's last line, and the end of the process
DriverExit ==
    /\ cpc = "returned"
    /\ call.fn = "main"
    /\ ret' = [ret EXCEPT !.status = ExitStatus(call.driver, ret.value)]
    /\ cpc' = "exited"
    /\ UNCHANGED <<runnerVars, parserVars, call>>

DriverNext == DriverParse \/ DriverNoData \/ DriverReport \/ DriverExit

DriverSpec == DriverInit /\ [][DriverNext]_vars

-----------------------------------------------------------------------------
(* The study's failure model: theory_query_false_positive                  *)
(* (mmph/relative_trie/study/analyze.py), in binary64 arithmetic           *)

\* A natural number of any size is the sequence of its digits in base
\* LimbBase, lowest first, without leading zero digits; <<>> is 0.
LimbBits == 12
LimbBase == 2 ^ LimbBits

\* the significand of a binary64 number has 53 bits
Precision == 53

RECURSIVE Trim(_)
Trim(N) ==
    IF N = <<>> THEN <<>>
    ELSE IF N[Len(N)] = 0 THEN Trim(SubSeq(N, 1, Len(N) - 1))
    ELSE N

BigOne == <<1>>

\* bit i (from 0) of N
BigBit(N, i) ==
    IF i \div LimbBits + 1 > Len(N) THEN 0
    ELSE (N[i \div LimbBits + 1] \div (2 ^ (i % LimbBits))) % 2

BitLength(N) ==
    IF N = <<>> THEN 0
    ELSE LimbBits * (Len(N) - 1)
         + (CHOOSE b \in 1..LimbBits : 2 ^ (b - 1) <= N[Len(N)] /\ N[Len(N)] < 2 ^ b)

RECURSIVE LimbOf(_, _, _)
\* the digit made of the bits from..(from + n - 1) of the 0-based bit table at
LimbOf(at, from, n) ==
    IF n = 0 THEN 0 ELSE at[from] + 2 * LimbOf(at, from + 1, n - 1)

\* the number whose bits 0..(len - 1) are bits[1..len]
FromBits(bits) ==
    LET len == Len(bits)
        at == [i \in 0..(len + LimbBits) |-> IF i < len THEN bits[i + 1] ELSE 0]
    IN  Trim([j \in 1..((len + LimbBits - 1) \div LimbBits) |->
                 LimbOf(at, LimbBits * (j - 1), LimbBits)])

\* N * 2^n
ShiftLeft(N, n) ==
    FromBits([i \in 1..(BitLength(N) + n) |-> IF i <= n THEN 0 ELSE BigBit(N, i - n - 1)])

\* floor(N / 2^n)
ShiftRight(N, n) ==
    IF n >= BitLength(N) THEN <<>>
    ELSE FromBits([i \in 1..(BitLength(N) - n) |-> BigBit(N, n + i - 1)])

RECURSIVE Carry(_, _)
\* the digits of the number whose digit sums, lowest first, are cs, c carried in
Carry(cs, c) ==
    IF cs = <<>> THEN (IF c = 0 THEN <<>> ELSE <<c % LimbBase>> \o Carry(<<>>, c \div LimbBase))
    ELSE <<(cs[1] + c) % LimbBase>> \o Carry(Tail(cs), (cs[1] + c) \div LimbBase)

RECURSIVE ConvAt(_, _, _, _)
\* the sum of A[i] * B[j + 1 - i] over i in lo..Len(A)
ConvAt(A, B, j, lo) ==
    IF lo > Len(A) THEN 0
    ELSE (IF j + 1 - lo >= 1 /\ j + 1 - lo <= Len(B) THEN A[lo] * B[j + 1 - lo] ELSE 0)
         + ConvAt(A, B, j, lo + 1)

BigMul(A, B) ==
    IF A = <<>> \/ B = <<>> THEN <<>>
    ELSE Trim(Carry([j \in 1..(Len(A) + Len(B) - 1) |-> ConvAt(A, B, j, 1)], 0))

BigAdd(A, B) ==
    LET n == IF Len(A) >= Len(B) THEN Len(A) ELSE Len(B)
    IN  Carry([j \in 1..n |-> (IF j <= Len(A) THEN A[j] ELSE 0)
                              + (IF j <= Len(B) THEN B[j] ELSE 0)], 0)

RECURSIVE Borrow(_, _, _)
Borrow(A, B, c) ==
    IF A = <<>> THEN <<>>
    ELSE LET b == (IF B = <<>> THEN 0 ELSE B[1]) + c
         IN  <<(A[1] + LimbBase - b) % LimbBase>>
             \o Borrow(Tail(A), IF B = <<>> THEN <<>> ELSE Tail(B),
                       IF A[1] < b THEN 1 ELSE 0)

\* A - B, for A >= B
BigSub(A, B) == Trim(Borrow(A, B, 0))

BigLeq(A, B) ==
    \/ Len(A) < Len(B)
    \/ /\ Len(A) = Len(B)
       /\ \/ A = B
          \/ \E i \in 1..Len(A) :
                /\ A[i] < B[i]
                /\ \A j \in (i + 1)..Len(A) : A[j] = B[j]

\* A binary64 number that is not negative is [m, e]: the number m * 2^e with
\* m odd, or m = <<>> and e = 0 for 0.0.  The numbers of this part stay
\* between 2^-1022 and 1, so none is subnormal or infinite.
TrailingZeros(N) ==
    CHOOSE t \in 0..(BitLength(N) - 1) :
        BigBit(N, t) = 1 /\ \A u \in 0..(t - 1) : BigBit(N, u) = 0

Float(N, e) ==
    IF N = <<>> THEN [m |-> <<>>, e |-> 0]
    ELSE [m |-> ShiftRight(N, TrailingZeros(N)), e |-> e + TrailingZeros(N)]

FloatOne == Float(BigOne, 0)

FloatZero == Float(<<>>, 0)

\* x <= y
FloatLeq(x, y) ==
    LET e0 == IF x.e <= y.e THEN x.e ELSE y.e
    IN  BigLeq(ShiftLeft(x.m, x.e - e0), ShiftLeft(y.m, y.e - e0))

\* whether the number x is a binary64 number
Exact(x) == BitLength(x.m) <= Precision

\* the binary64 number next below x, for x not one itself
Below(x) ==
    Float(ShiftRight(x.m, BitLength(x.m) - Precision), x.e + BitLength(x.m) - Precision)

\* the binary64 number next above x, for x not one itself
Above(x) ==
    Float(BigAdd(ShiftRight(x.m, BitLength(x.m) - Precision), BigOne),
          x.e + BitLength(x.m) - Precision)

\* whether x, not a binary64 number, rounds up to nearest, ties to even:
\* x.m is odd, so below the half bit there is a 1 whenever there is a bit
RoundsUp(x) ==
    /\ BigBit(x.m, BitLength(x.m) - Precision - 1) = 1
    /\ \/ BitLength(x.m) - Precision > 1
       \/ BigBit(x.m, BitLength(x.m) - Precision) = 1

\* x rounded to nearest, ties to even: the result of + and -
RoundNearestEven(x) ==
    IF Exact(x) THEN x ELSE IF RoundsUp(x) THEN Above(x) ELSE Below(x)

\* 1.0 - x, for 0 <= x <= 1
OneMinus(x) ==
    IF x.m = <<>> THEN FloatOne
    ELSE RoundNearestEven(Float(BigSub(ShiftLeft(BigOne, 0 - x.e), x.m), x.e))

MaxWidth == 17
MaxSig == 56

\* the per-check failure chance growing with s
TwoToMinusReversed(s) == Float(BigOne, s - MaxSig - 2)

\* math.pow(2.0, -float(s)), exact for the s of this part
TwoToMinus(s) == Float(BigOne, 0 - s)

RECURSIVE BigPow(_, _)
BigPow(N, k) == IF k = 0 THEN BigOne ELSE BigMul(N, BigPow(N, k - 1))

Faithful(y) == IF Exact(y) THEN {y} ELSE {Below(y), Above(y)}

\* math.pow(x, float(k)) for 0 < x <= 1 and an integer k >= 1: the C library's
\* pow is within one unit in the last place of x^k, so it returns x^k when
\* that is a binary64 number and one of its two neighbours otherwise
PowOutcomes(x, k) == Faithful(Float(BigPow(x.m, k), k * x.e))

RECURSIVE CeilLog2(_)
\* math.ceil(math.log2(n)) for an integer n >= 1
CeilLog2(n) == IF n <= 1 THEN 0 ELSE 1 + CeilLog2((n + 1) \div 2)

\* checks = max(1, math.ceil(math.log2(max(2, w_bits))))
Checks(w_bits) == Max2(1, CeilLog2(Max2(2, w_bits)))

\* the values theory_query_false_positive(w_bits, s_bits) can return
theory_query_false_positive(w_bits, s_bits) ==
    { OneMinus(p) : p \in PowOutcomes(OneMinus(TwoToMinus(s_bits)), Checks(w_bits)) }

QfpInit ==
    /\ OnlyCall
    /\ \E w \in 0..MaxWidth, s \in 1..MaxSig :
          call = [fn |-> "theory_query_false_positive", w_bits |-> w, s_bits |-> s]
    /\ ret = [fn |-> "none"]
    /\ cpc = "called"

\* the function called at s_bits and at s_bits + 1
DoTheoryQueryFalsePositive ==
    /\ cpc = "called"
    /\ call.fn = "theory_query_false_positive"
    /\ \E p \in theory_query_false_positive(call.w_bits, call.s_bits),
          q \in theory_query_false_positive(call.w_bits, call.s_bits + 1) :
          ret' = [fn |-> call.fn, at_s |-> p, at_next |-> q]
    /\ cpc' = "returned"
    /\ UNCHANGED <<runnerVars, parserVars, call>>

QfpNext == DoTheoryQueryFalsePositive

QfpSpec == QfpInit /\ [][QfpNext]_vars

-----------------------------------------------------------------------------
(* The two medians: quantile (mmph/relative_trie/study/analyze.py) and     *)
(* median (mmph/benchmarks/analyze.py), which is statistics.median as in   *)
(* aggregate                                                               *)

\* round(a / b) for integers a >= 0 and b > 0: to nearest, a half to the even
\* neighbour
RoundHalfEven(a, b) ==
    IF 2 * (a % b) > b THEN a \div b + 1
    ELSE IF 2 * (a % b) < b THEN a \div b
    ELSE IF (a \div b) % 2 = 0 THEN a \div b
    ELSE a \div b + 1

\* max(0, min(pos, hi))
Clamp(pos, hi) == IF pos < 0 THEN 0 ELSE IF pos > hi THEN hi ELSE pos

\* q = 0.5, the only q the study passes: a binary64 number, as is every
\* (len(s_vals) - 1) * 0.5
Half == [num |-> 1, den |-> 2]

\* s_vals[pos] with pos = round((len(s_vals) - 1) * q), clamped
PickSorted(s_vals, q) ==
    s_vals[Clamp(RoundHalfEven((Len(s_vals) - 1) * q.num, q.den), Len(s_vals) - 1) + 1]

quantile(vals, q) ==
    IF vals = <<>> THEN NumVal(0, 0)
    ELSE IF Len(vals) = 1 THEN vals[1]
    ELSE PickSorted(Sorted(vals), q)

\* median(values) of mmph/benchmarks/analyze.py
median(values) == IF values = <<>> THEN NoneVal ELSE Median(values)

MaxVals == 4

QuantileValues == {NumVal(1, 0), NumVal(2, 0), NumVal(4, 0), NumVal(25, 0 - 1)}

QuantileInit ==
    /\ OnlyCall
    /\ \E n \in 0..MaxVals :
          \E vs \in [1..n -> QuantileValues] :
             call = [fn |-> "quantile", vals |-> vs]
    /\ ret = [fn |-> "none"]
    /\ cpc = "called"

\* the p50 of the study and the median of aggregate, of the same values
DoQuantile ==
    /\ cpc = "called"
    /\ call.fn = "quantile"
    /\ ret' = [fn |-> call.fn, p50 |-> quantile(call.vals, Half),
               median |-> median(call.vals)]
    /\ cpc' = "returned"
    /\ UNCHANGED <<runnerVars, parserVars, call>>

QuantileNext == DoQuantile

QuantileSpec == QuantileInit /\ [][QuantileNext]_vars

-----------------------------------------------------------------------------
(* parse_mem_reports (locators/benchmarks/analyze.py)                      *)

MemMarker == <<"B", "e", "n", "c", "h", "m", "a", "r", "k", "M", "e", "m", "o", "r", "y", "D", "e", "t", "a", "i", "l", "e", "d", "/">>

KeysEq == <<"K", "e", "y", "s", "=">>

DefaultMode == <<"d", "e", "f", "a", "u", "l", "t">>

RECURSIVE KeysLoop(_, _)
\* for p in parts: if p.startswith("Keys="): try: current_keys = int(...)
\* except: pass
KeysLoop(parts, keys) ==
    IF parts = <<>> THEN keys
    ELSE KeysLoop(Tail(parts),
                  IF StartsWith(Head(parts), KeysEq)
                     /\ try_int(Split(Split(Head(parts), "=")[2], "-")[1]) # NoneVal
                  THEN try_int(Split(Split(Head(parts), "=")[2], "-")[1])
                  ELSE keys)

\* current_mode and current_keys after a BenchmarkMemoryDetailed/ line whose
\* first token splits at "/" into parts
ContextOf(parts, keys) ==
    [mode |-> IF Len(parts) >= 3 /\ ~StartsWith(parts[2], KeysEq)
              THEN parts[2] ELSE DefaultMode,
     keys |-> KeysLoop(parts, keys)]

\* current_mode and current_keys after the first "if" of the loop body
Context(text, mode, keys) ==
    IF StartsWith(text, MemMarker)
    THEN ContextOf(Split(SplitWS(text, <<>>)[1], "/"), keys)
    ELSE [mode |-> mode, keys |-> keys]

\* A payload is what follows "JSON_MEM_REPORT:" on a line: valid tells whether
\* json.loads accepts it, object whether it is a JSON object (the last one is
\* a JSON list), nodes is the tree it denotes and lacks the fields that the
\* nodes of the text do not have; malformed marks the payloads that
\* are no JSON or in which a node that flatten_report reads lacks a field.
MemPayloads ==
    << [malformed |-> FALSE, valid |-> TRUE, object |-> TRUE,
        nodes |-> << [name |-> "LERLOC", parent |-> 0, total_bytes |-> 5],
                     [name |-> "hzft", parent |-> 1, total_bytes |-> 2],
                     [name |-> "rsdic_bv", parent |-> 1, total_bytes |-> 3] >>,
        lacks |-> {}],
       [malformed |-> TRUE, valid |-> FALSE, object |-> FALSE, nodes |-> <<>>, lacks |-> {}],
       [malformed |-> TRUE, valid |-> TRUE, object |-> TRUE,
        nodes |-> << [name |-> "LERLOC", parent |-> 0, total_bytes |-> 5],
                     [name |-> "hzft", parent |-> 1, total_bytes |-> 2],
                     [name |-> "rsdic_bv", parent |-> 1, total_bytes |-> 3] >>,
        lacks |-> {<<3, "name">>}],
       [malformed |-> FALSE, valid |-> TRUE, object |-> TRUE,
        nodes |-> << [name |-> "buckets", parent |-> 0, total_bytes |-> 7],
                     [name |-> "aux", parent |-> 1, total_bytes |-> 1] >>,
        lacks |-> {<<2, "name">>}],
       [malformed |-> TRUE, valid |-> TRUE, object |-> TRUE,
        nodes |-> << [name |-> "header", parent |-> 0, total_bytes |-> 4] >>,
        lacks |-> {<<1, "total_bytes">>}],
       [malformed |-> TRUE, valid |-> TRUE, object |-> FALSE, nodes |-> <<>>, lacks |-> {}] >>

BlackBoxes == {"hzft", "rsdic_bv", "ApproxZFastTrie", "buckets"}

RECURSIVE Walked(_, _)
\* whether walk is called on node i of the payload, should no call before
\* it raise: the root, and the children of a walked node that has a name
\* other than the four at which walk returns
Walked(p, i) ==
    \/ p.nodes[i].parent = 0
    \/ /\ Walked(p, p.nodes[i].parent)
       /\ <<p.nodes[i].parent, "name">> \notin p.lacks
       /\ p.nodes[p.nodes[i].parent].name \notin BlackBoxes

\* node["name"] or node["total_bytes"] raises KeyError on a walked node
WalkRaises(p) ==
    \E i \in 1..Len(p.nodes) :
        /\ Walked(p, i)
        /\ \/ <<i, "name">> \in p.lacks
           \/ /\ p.nodes[i].name \in BlackBoxes \cup {"header", "Top_Level_Header"}
              /\ <<i, "total_bytes">> \in p.lacks

\* the exception that json.loads(json_str) or flatten_report(data) raises,
\* "none" when the report is stored
Raises(p) ==
    IF ~p.valid THEN "JSONDecodeError"
    ELSE IF ~p.object THEN "AttributeError"
    ELSE IF WalkRaises(p) THEN "KeyError"
    ELSE "none"

\* except json.JSONDecodeError
CaughtIfJson(exc) == exc = "JSONDecodeError"

\* except Exception
Caught(exc) == exc \in {"JSONDecodeError", "AttributeError", "KeyError"}

\* The lines of a log: the text before the report marker, and the payload
\* behind it (0 when the line has no marker).  For a BenchmarkMemoryDetailed/
\* line, mode and keys are what the name states, "default" and 0 standing for
\* a name that states none; head tells whether the line is one.
MemLines ==
    << [text |-> <<"B", "e", "n", "c", "h", "m", "a", "r", "k", "M", "e", "m", "o", "r", "y", "D", "e", "t", "a", "i", "l", "e", "d", "/", "F", "a", "s", "t", "/", "K", "e", "y", "s", "=", "1", "0", "2", "4", "-", "8">> \o <<"\n">>, payload |-> 0,
        head |-> TRUE, mode |-> <<"F", "a", "s", "t">>, keys |-> 1024],
       [text |-> <<"B", "e", "n", "c", "h", "m", "a", "r", "k", "M", "e", "m", "o", "r", "y", "D", "e", "t", "a", "i", "l", "e", "d", "/", "K", "e", "y", "s", "=", "6", "4", "-", "8", " ", "1", " ", "5", " ", "n", "s", "/", "o", "p">> \o <<"\n">>, payload |-> 0,
        head |-> TRUE, mode |-> DefaultMode, keys |-> 64],
       [text |-> <<"B", "e", "n", "c", "h", "m", "a", "r", "k", "M", "e", "m", "o", "r", "y", "D", "e", "t", "a", "i", "l", "e", "d", "/", "C", "o", "m", "p", "a", "c", "t", "/", "S", "i", "z", "e", "=", "5", "-", "8">> \o <<"\n">>, payload |-> 0,
        head |-> TRUE, mode |-> <<"C", "o", "m", "p", "a", "c", "t">>, keys |-> 0],
       [text |-> <<"B", "e", "n", "c", "h", "m", "a", "r", "k", "O", "t", "h", "e", "r", "/", "S", "l", "o", "w", "/", "K", "e", "y", "s", "=", "7", "-", "8">> \o <<"\n">>, payload |-> 0,
        head |-> FALSE, mode |-> DefaultMode, keys |-> 0],
       [text |-> <<>>, payload |-> 1, head |-> FALSE, mode |-> DefaultMode, keys |-> 0],
       [text |-> <<>>, payload |-> 2, head |-> FALSE, mode |-> DefaultMode, keys |-> 0],
       [text |-> <<>>, payload |-> 3, head |-> FALSE, mode |-> DefaultMode, keys |-> 0],
       [text |-> <<>>, payload |-> 4, head |-> FALSE, mode |-> DefaultMode, keys |-> 0],
       [text |-> <<>>, payload |-> 5, head |-> FALSE, mode |-> DefaultMode, keys |-> 0],
       [text |-> <<>>, payload |-> 6, head |-> FALSE, mode |-> DefaultMode, keys |-> 0] >>

MaxMemLines == 3

MemLogs ==
    UNION { [1..n -> 1..Len(MemLines)] : n \in 0..MaxMemLines }

MemInit ==
    /\ OnlyCall
    /\ \E exists \in BOOLEAN :
          \E log \in (IF exists THEN MemLogs ELSE {<<>>}) :
             call = [fn |-> "parse_mem_reports", exists |-> exists,
                     lines |-> [k \in 1..Len(log) |-> MemLines[log[k]]]]
    /\ ret = [fn |-> "parse_mem_reports", reports |-> <<>>, i |-> 1,
              current_mode |-> DefaultMode, current_keys |-> NumVal(0, 0),
              raised |-> "none", printed |-> <<>>, filed |-> <<>>]
    /\ cpc = "called"

\* reports[mode][keys] = out
FileReport(reports, mode, keys, out) ==
    SetItem(reports, mode,
            SetItem(IF mode \in DOMAIN reports THEN reports[mode] ELSE <<>>, keys, out))

\* the second "if" of the loop body, with the context ctx of the line;
\* filed keeps, for every report stored, the line it came from and the mode
\* and key count it was stored under
AfterLine(r, line, ctx) ==
    IF line.payload = 0
    THEN [r EXCEPT !.i = @ + 1, !.current_mode = ctx.mode, !.current_keys = ctx.keys]
    ELSE IF Raises(MemPayloads[line.payload]) = "none"
    THEN [r EXCEPT !.i = @ + 1, !.current_mode = ctx.mode, !.current_keys = ctx.keys,
                   !.reports = FileReport(@, ctx.mode, ctx.keys,
                                          flatten_report(MemPayloads[line.payload].nodes)),
                   !.filed = Append(@, [line |-> r.i, mode |-> ctx.mode, keys |-> ctx.keys])]
    ELSE IF Caught(Raises(MemPayloads[line.payload]))
    THEN [r EXCEPT !.i = @ + 1, !.current_mode = ctx.mode, !.current_keys = ctx.keys,
                   !.printed = Append(@, [line |-> r.i, mode |-> ctx.mode, keys |-> ctx.keys])]
    ELSE [r EXCEPT !.current_mode = ctx.mode, !.current_keys = ctx.keys,
                   !.raised = Raises(MemPayloads[line.payload])]

\* one turn of "for line in f"
MemLine ==
    /\ cpc = "called"
    /\ call.fn = "parse_mem_reports"
    /\ call.exists
    /\ ret.i <= Len(call.lines)
    /\ ret' = AfterLine(ret, call.lines[ret.i],
                        Context(call.lines[ret.i].text, ret.current_mode, ret.current_keys))
    /\ cpc' = IF ret'.raised = "none" THEN "called" ELSE "raised"
    /\ UNCHANGED <<runnerVars, parserVars, call>>

\* return reports: at once when there is no file, else behind the last line
MemReturn ==
    /\ cpc = "called"
    /\ call.fn = "parse_mem_reports"
    /\ ~call.exists \/ ret.i > Len(call.lines)
    /\ cpc' = "returned"
    /\ UNCHANGED <<runnerVars, parserVars, call, ret>>

MemNext == MemLine \/ MemReturn

MemSpec == MemInit /\ [][MemNext]_vars

-----------------------------------------------------------------------------
(* parse_raw_files (mmph/benchmarks/analyze.py)                            *)

EndsWith(s, p) ==
    /\ Len(s) >= Len(p)
    /\ SubSeq(s, Len(s) - Len(p) + 1, Len(s)) = p

DotTxt == <<".", "t", "x", "t">>

\* sorted(os.listdir(RAW_DIR)): the raw directory holds these files, of which
\* the last is no module log
RawNames == << <<"b", "u", "c", "k", "e", "t", "-", "m", "m", "p", "h", ".", "t", "x", "t">>, <<"n", "o", "t", "e", "s", ".", "m", "d">>, <<"r", "b", "t", "z", "-", "m", "m", "p", "h", ".", "t", "x", "t">> >>

\* what parse_benchmark_line makes of a line: no row, or a row of a benchmark
\* name and a key count (the metrics of the row play no part here)
RawLines ==
    << [row |-> FALSE, benchmark |-> <<>>, keycount |-> 0],
       [row |-> TRUE, benchmark |-> BenchX, keycount |-> 64],
       [row |-> TRUE, benchmark |-> BenchX, keycount |-> 128] >>

MaxRawLines == 3

RawFiles ==
    UNION { [1..n -> 1..Len(RawLines)] : n \in 0..MaxRawLines }

\* run_counts[key], a defaultdict(int)
CountOf(run_counts, key) == IF key \in DOMAIN run_counts THEN run_counts[key] ELSE 0


\* run_counts[key] += 1; row["run_index"] = run_counts[key]
RunIndex(run_counts, key) == CountOf(run_counts, key) + 1

RECURSIVE RawFileLoop(_, _, _)
\* for line in f, in the file of module: st is [rows, run_counts]
RawFileLoop(module, lines, st) ==
    IF lines = <<>> THEN st
    ELSE RawFileLoop(module, Tail(lines),
            IF ~RawLines[Head(lines)].row THEN st
            ELSE [rows |-> Append(st.rows,
                          [module |-> module,
                           benchmark |-> RawLines[Head(lines)].benchmark,
                           keycount |-> RawLines[Head(lines)].keycount,
                           run_index |->
                              RunIndex(st.run_counts,
                                       <<module, RawLines[Head(lines)].benchmark,
                                         RawLines[Head(lines)].keycount>>)]),
                  run_counts |->
                      SetItem(st.run_counts,
                              <<module, RawLines[Head(lines)].benchmark,
                                RawLines[Head(lines)].keycount>>,
                              RunIndex(st.run_counts,
                                       <<module, RawLines[Head(lines)].benchmark,
                                         RawLines[Head(lines)].keycount>>))])

RECURSIVE RawDirLoop(_, _, _)
\* for fname in sorted(os.listdir(RAW_DIR)), from file n on
RawDirLoop(files, n, st) ==
    IF n > Len(files) THEN st
    ELSE RawDirLoop(files, n + 1,
            IF ~EndsWith(RawNames[n], DotTxt) THEN st
            ELSE RawFileLoop(SubSeq(RawNames[n], 1, Len(RawNames[n]) - 4), files[n], st))

parse_raw_files(isdir, files) ==
    IF ~isdir THEN <<>>
    ELSE RawDirLoop(files, 1, [rows |-> <<>>, run_counts |-> <<>>]).rows

RawInit ==
    /\ OnlyCall
    /\ \E isdir \in BOOLEAN :
          \E fs0 \in (IF isdir THEN [1..Len(RawNames) -> RawFiles]
                      ELSE {[n \in 1..Len(RawNames) |-> <<>>]}) :
             /\ \A n \in 1..Len(RawNames) :
                   EndsWith(RawNames[n], DotTxt) \/ Len(fs0[n]) <= 1
             /\ call = [fn |-> "parse_raw_files", isdir |-> isdir, files |-> fs0]
    /\ ret = [fn |-> "none"]
    /\ cpc = "called"

DoParseRawFiles ==
    /\ cpc = "called"
    /\ call.fn = "parse_raw_files"
    /\ ret' = [fn |-> call.fn, rows |-> parse_raw_files(call.isdir, call.files)]
    /\ cpc' = "returned"
    /\ UNCHANGED <<runnerVars, parserVars, call>>

RawNext == DoParseRawFiles

RawSpec == RawInit /\ [][RawNext]_vars

-----------------------------------------------------------------------------
(* Run orchestrator: vocabulary of the properties *)

ModIdx == 1..Len(modules)

TaskIdx == 1..Len(tasks)

\* the benchmark names a module is run under ("" when the run is not split)
NamesOf(m) ==
    IF split THEN list_benchmarks(listOut[modules[m].dir]) ELSE << <<>> >>

\* the futures of one (module, name, iteration)
TasksFor(m, b, i) ==
    {k \in TaskIdx : tasks[k].mod = m /\ tasks[k].bench = b /\ tasks[k].iteration = i}

TempOf(k) == TempOut(modules[tasks[k].mod].out, tasks[k].iteration, tasks[k].bench)

\* what the invocation of (m, b, i) wrote, as recorded when it exited
WroteBy(m, b, i) ==
    LET ks == TasksFor(m, b, i)
    IN  IF ks = {} THEN <<>> ELSE tasks[CHOOSE k \in ks : TRUE].wrote

\* as WroteBy, but only for an invocation that exited with status 0
GoodBy(m, b, i) ==
    LET ks == TasksFor(m, b, i)
    IN  IF ks = {} THEN <<>>
        ELSE LET t == tasks[CHOOSE k \in ks : TRUE]
             IN  IF t.ok THEN t.wrote ELSE <<>>

\* concatenation by name (in listing order) and, within a name, by iteration
InOrder(m, W(_, _, _)) ==
    LET names == NamesOf(m)
    IN  Flatten([n \in 1..Len(names) |->
                    Flatten([j \in 1..count |-> W(m, names[n], j - 1)])])

SomeFailed == \E k \in TaskIdx : tasks[k].st = "returned" /\ ~tasks[k].ok

SomeSucceeded == \E k \in TaskIdx : tasks[k].st = "returned" /\ tasks[k].ok

OutsDistinct ==
    \A m, n \in ModIdx : m # n => modules[m].out # modules[n].out

\* no output path is another module's output path followed by ".<something>"
NoOutExtendsAnother ==
    \A m, n \in ModIdx : m # n => ~StartsWith(modules[n].out, modules[m].out \o Dot)

-----------------------------------------------------------------------------
(* Run orchestrator: properties *)

\* C1 (as claimed): after the run, each module's merged file holds exactly the
\* outputs of its invocations that exited with status 0, in iteration order,
\* and nothing a failed invocation wrote.
C1_MergedExcludesFailed ==
    pc = "done" =>
        \A m \in ModIdx :
            /\ Exists(fs, modules[m].out)
            /\ fs[modules[m].out] = InOrder(m, GoodBy)

\* C2: no temporary file is deleted, no final output is opened or changed and
\* the merge loop does not move until every planned invocation has been
\* submitted and has finished; a merge step touches one module's output and
\* removes at most one temporary file.
C2_MergeBehindBarrier ==
    [][ LET merging == \/ mj' # mj
                       \/ (DOMAIN fs) \ (DOMAIN fs') # {}
                       \/ \E m \in ModIdx :
                            /\ Exists(fs', modules[m].out)
                            /\ ~Exists(fs, modules[m].out)
                               \/ fs'[modules[m].out] # fs[modules[m].out]
        IN  merging =>
              /\ Len(tasks) = Planned(modules, count, split, listOut)
              /\ \A k \in TaskIdx : Finished(tasks[k])
              /\ Cardinality((DOMAIN fs) \ (DOMAIN fs')) <= 1
              /\ \A m \in ModIdx :
                    (m # mi /\ Exists(fs, modules[m].out)) =>
                        /\ Exists(fs', modules[m].out)
                        /\ fs'[modules[m].out] = fs[modules[m].out]
      ]_vars

C2_Witness ==
    /\ pc = "merge" /\ mi = 2 /\ mj = 2
    /\ Len(tasks) >= 3
    /\ SomeFailed

\* C3: after the run, each module's output file is the concatenation of what
\* its invocations wrote, ordered by discovered name and then by iteration
\* from 0, whatever the order the invocations finished in.
C3_MergeInIterationOrder ==
    pc = "done" =>
        \A m \in ModIdx :
            /\ Exists(fs, modules[m].out)
            /\ fs[modules[m].out] = InOrder(m, WroteBy)

C3_Witness ==
    /\ pc = "done" /\ reordered /\ split
    /\ \E m \in ModIdx : Len(fs[modules[m].out]) >= 3

\* C4: once submission is over there is exactly one invocation for every
\* (module, name, iteration) with iteration in 0..count-1 and none besides,
\* a module without a discovered name has none, and by the merge each has
\* been run exactly once.
C4_OneInvocationPerTuple ==
    pc \in {"wait", "merge", "done"} =>
        /\ \A m \in ModIdx :
             \A n \in 1..Len(NamesOf(m)) :
               \A i \in 0..(count - 1) :
                 Cardinality(TasksFor(m, NamesOf(m)[n], i)) = 1
        /\ \A k \in TaskIdx :
             /\ tasks[k].mod \in ModIdx
             /\ tasks[k].bench \in SeqRange(NamesOf(tasks[k].mod))
             /\ tasks[k].iteration \in 0..(count - 1)
        /\ \A m \in ModIdx :
             NamesOf(m) = <<>> => ~\E k \in TaskIdx : tasks[k].mod = m
        /\ pc \in {"merge", "done"} => \A k \in TaskIdx : tasks[k].runs = 1

C4_Witness ==
    /\ pc = "done" /\ split /\ count = 2
    /\ \E m \in ModIdx : NamesOf(m) = <<>>
    /\ \E m \in ModIdx : Len(NamesOf(m)) = 2
    /\ Len(tasks) = 4

C7_AllFailedGivesEmptyOutput ==
    pc = "done" =>
        \A m \in ModIdx :
            ( /\ \E k \in TaskIdx : tasks[k].mod = m
              /\ \A k \in TaskIdx : tasks[k].mod = m => ~tasks[k].ok )
            => /\ Exists(fs, modules[m].out)
               /\ fs[modules[m].out] = <<>>

\* C8: after the run no temporary file of any of its invocations exists,
\* whether the invocation succeeded or failed.
C8_NoTempFileRemains ==
    pc = "done" => \A k \in TaskIdx : ~Exists(fs, TempOf(k))

C8_Witness ==
    /\ pc = "done"
    /\ SomeFailed /\ SomeSucceeded
    /\ Len(tasks) >= 3

-----------------------------------------------------------------------------
(* Log parser: vocabulary of the properties *)

Subject == logInput.subject

\* index, in the log, of the line under study
SubjectLine == Len(logInput.prefix) + 1

\* the rows that came from the line under study
SubjectRows == {r \in 1..Len(rows) : rowLine[r] = SubjectLine}

\* the line has the form Name/K1=V1/.../Kn=Vn-P count a ns/op b B/op c allocs/op
\* with n >= 1, numeric values and keys that differ after lower-casing
FormSubject ==
    /\ logInput.exists
    /\ Subject.segs # <<>>
    /\ \A k \in 1..Len(Subject.segs) : Subject.segs[k].numeric
    /\ \A k, h \in 1..Len(Subject.segs) :
         k # h => Subject.segs[k].lkey # Subject.segs[h].lkey
    /\ Subject.suffix # <<>>
    /\ Subject.rest.form

\* the text before the first "/" of the first token of each line, as the log
\* was put together
FillerName == << <<>>, BenchX, BenchY \o <<"-", "8">> >>

WrittenName(line) ==
    IF line = SubjectLine
    THEN (IF Subject.segs = <<>> THEN Subject.name \o Subject.suffix ELSE Subject.name)
    ELSE FillerName[logInput.prefix[line]]

StandardFields ==
    {F_full_name, F_benchmark, F_samples_count,
     F_ns_per_op, F_bytes_per_op, F_allocs_per_op}

RowIsAsWritten(row) ==
    /\ row[F_benchmark] = StrVal(Subject.name)
    /\ \A k \in 1..Len(Subject.segs) :
         /\ Subject.segs[k].lkey \in DOMAIN row
         /\ row[Subject.segs[k].lkey] = Subject.segs[k].num
    /\ F_ns_per_op \in DOMAIN row /\ row[F_ns_per_op] = Subject.rest.a
    /\ F_bytes_per_op \in DOMAIN row /\ row[F_bytes_per_op] = Subject.rest.b
    /\ F_allocs_per_op \in DOMAIN row /\ row[F_allocs_per_op] = Subject.rest.c
    /\ DOMAIN row \subseteq
         StandardFields \cup {Subject.segs[k].lkey : k \in 1..Len(Subject.segs)}

-----------------------------------------------------------------------------
(* Log parser: properties *)

\* C9 (as claimed): a line of the form
\* Name/K1=V1/.../Kn=Vn-P count a ns/op b B/op c allocs/op gives exactly one
\* row, with benchmark name Name, every Vi under the lower-cased Ki, the three
\* standard metrics a, b, c and no other metric.
C9_FormLineParsedAsWritten ==
    (ppc = "parsed" /\ FormSubject) =>
        /\ Cardinality(SubjectRows) = 1
        /\ \A r \in SubjectRows : RowIsAsWritten(rows[r])

\* C10 (as claimed): every row's benchmark field is the text before the first
\* "/" of the first token of its line, whatever else the line carries.
C10_BenchmarkNameIsNamePrefix ==
    ppc = "parsed" =>
        \A r \in 1..Len(rows) :
            /\ F_benchmark \in DOMAIN rows[r]
            /\ rows[r][F_benchmark] = StrVal(WrittenName(rowLine[r]))

-----------------------------------------------------------------------------
(* parse_key_params: properties *)

\* the "Key=Value" segments of a name as written: every value under its
\* lower-cased key, a later segment replacing an earlier one of the same key
RECURSIVE WrittenParams(_, _)
WrittenParams(segs, row) ==
    IF segs = <<>> THEN row
    ELSE LET g == Head(segs)
         IN  WrittenParams(Tail(segs),
                 IF ~Contains(g.txt, "=") THEN row
                 ELSE SetItem(row, g.lkey,
                              IF g.numeric THEN g.num
                              ELSE StrVal(SplitOnce(g.txt, "=")[2])))

\* C11 (as claimed): for every name that carries no "-P" suffix and every
\* positive P, the parameters parsed from the name followed by "-P" are the
\* parameters parsed from the name itself, and every value is the whole text
\* after its "=" (as a number when it denotes one).
C11_StripsExactlyTheSuffix ==
    cpc = "returned" /\ call.fn = "parse_key_params" =>
        /\ ret.suffixed = ret.plain
        /\ ret.plain = WrittenParams(call.subject.segs, EmptyRow)

-----------------------------------------------------------------------------
(* aggregate: vocabulary of the properties *)

AggReturned == cpc = "returned" /\ call.fn = "aggregate"

RowIdx == 1..Len(call.rows)

GroupIdx == 1..Len(ret.grouped)

\* the indices of the records of group g
MembersOf(g) == {ret.grouped[g].members[j] : j \in 1..Len(ret.grouped[g].members)}

\* both records lack the field, or both carry it with the same value
Agree(r1, r2, k) ==
    /\ (k \in DOMAIN r1) = (k \in DOMAIN r2)
    /\ k \in DOMAIN r1 => r1[k] = r2[k]

AgreeOnKeys(i, j) ==
    \A q \in 1..Len(call.group_keys) :
        Agree(call.rows[i], call.rows[j], call.group_keys[q])

\* the integer a whole number stands for
AsInt(v) == AtScale(v, 0)

RECURSIVE SamplesSum(_)
SamplesSum(agg) ==
    IF agg = <<>> THEN 0 ELSE AsInt(Head(agg)[F_samples]) + SamplesSum(Tail(agg))

KeyFieldSet == {call.group_keys[q] : q \in 1..Len(call.group_keys)}

\* every field name in sight
AllFields == KeyFieldSet \cup UNION {DOMAIN call.rows[i] : i \in RowIdx}

\* the records of group g that carry field k with a number
Carriers(g, k) ==
    {i \in MembersOf(g) : k \in DOMAIN call.rows[i] /\ IsNumber(call.rows[i][k])}

\* the q-th smallest of the numbers the carriers hold (q from 1)
KthSmallest(g, k, q) ==
    LET C == Carriers(g, k)
    IN  CHOOSE v \in {call.rows[i][k] : i \in C} :
            /\ Cardinality({i \in C : ~NumLeq(v, call.rows[i][k])}) < q
            /\ Cardinality({i \in C : NumLeq(call.rows[i][k], v)}) >= q

\* the median of field k over the carriers of group g: the middle value, or
\* the mean of the two middle values
MedianOf(g, k) ==
    LET n == Cardinality(Carriers(g, k))
    IN  Mean2(KthSmallest(g, k, (n + 1) \div 2), KthSmallest(g, k, n \div 2 + 1))

ReservedFields == {F_full_name, F_samples, F_samples_count}

-----------------------------------------------------------------------------
(* aggregate: properties *)

\* C12: aggregate partitions its input by the group-key tuple: every record
\* is in exactly one group, two records share a group exactly when they agree
\* on every group-key field (lacking a field agrees only with lacking it, never
\* with 0), every summary row counts at least one sample and the counts add up
\* to the number of input records.
C12_PartitionByGroupKey ==
    AggReturned =>
        /\ \A i \in RowIdx : Cardinality({g \in GroupIdx : i \in MembersOf(g)}) = 1
        /\ \A i, j \in RowIdx :
             (\E g \in GroupIdx : {i, j} \subseteq MembersOf(g)) <=> AgreeOnKeys(i, j)
        /\ Len(ret.agg_rows) = Len(ret.grouped)
        /\ \A g \in GroupIdx :
             /\ ret.agg_rows[g][F_samples] = NumVal(Cardinality(MembersOf(g)), 0)
             /\ AsInt(ret.agg_rows[g][F_samples]) >= 1
        /\ SamplesSum(ret.agg_rows) = Len(call.rows)

C12_Witness ==
    /\ AggReturned
    /\ Len(ret.grouped) >= 2
    /\ \E g \in GroupIdx : Cardinality(MembersOf(g)) >= 2
    /\ \E i, j \in RowIdx :
         /\ F_keysize \in KeyFieldSet
         /\ F_keysize \notin DOMAIN call.rows[i]
         /\ F_keysize \in DOMAIN call.rows[j]
         /\ call.rows[j][F_keysize] = NumVal(0, 0)

C14_MedianOverCarriersOnly ==
    AggReturned =>
        \A g \in GroupIdx : \A k \in AllFields \ (KeyFieldSet \cup {F_samples}) :
            /\ k \in DOMAIN ret.agg_rows[g] =>
                 /\ Carriers(g, k) # {}
                 /\ ret.agg_rows[g][k] = MedianOf(g, k)
            /\ (\A i \in MembersOf(g) : k \notin DOMAIN call.rows[i]) =>
                 k \notin DOMAIN ret.agg_rows[g]

\* a group of three where one record lacks the metric, and a metric that
\* another group holds but this one does not
C14_Witness ==
    /\ AggReturned
    /\ \E g \in GroupIdx :
         /\ Cardinality(MembersOf(g)) = 3
         /\ Cardinality(Carriers(g, F_ns_per_op)) = 2
         /\ F_ns_per_op \in DOMAIN ret.agg_rows[g]
         /\ ret.agg_rows[g][F_ns_per_op] # NumVal(0, 0)
    /\ \E g \in GroupIdx :
         /\ \A i \in MembersOf(g) : F_bits_key \notin DOMAIN call.rows[i]
         /\ F_bits_key \in AllFields

\* C15: two records with the same group keys and values 100 and 300 give one
\* summary row with median 200 and sample count 2; in general, when an even
\* number of a group's records hold a field, its median is the mean of the
\* two middle values.
C15_EvenMedianIsMeanOfMiddle ==
    AggReturned =>
        /\ call.rows = <<AggRecords[1], AggRecords[2]>> =>
             /\ Len(ret.agg_rows) = 1
             /\ ret.agg_rows[1][F_ns_per_op] = NumVal(200, 0)
             /\ ret.agg_rows[1][F_samples] = NumVal(2, 0)
        /\ \A g \in GroupIdx : \A k \in AllFields \ (KeyFieldSet \cup ReservedFields) :
             LET n == Cardinality(Carriers(g, k))
             IN  (n > 0 /\ n % 2 = 0) =>
                    ret.agg_rows[g][k] =
                        Mean2(KthSmallest(g, k, n \div 2), KthSmallest(g, k, n \div 2 + 1))

C15_Witness ==
    /\ AggReturned
    /\ call.rows = <<AggRecords[1], AggRecords[2]>>
    /\ Len(ret.agg_rows) = 1

-----------------------------------------------------------------------------
(* flatten_report: properties *)

\* C16 (as claimed): for every report tree, the five buckets flatten_report
\* returns add up to the root node's total_bytes.
C16_BucketsSumToRootTotal ==
    cpc = "returned" /\ call.fn = "flatten_report" =>
        BucketSum(ret.out) = call.data[1].total_bytes

-----------------------------------------------------------------------------
(* Chart rendering: properties *)

ChartReturned ==
    cpc = "returned" /\ call.fn \in {"draw_line_chart", "draw_stacked_area_chart"}

\* the x values of the call's points
CallXs == {AllPoints(call.series)[j][1] : j \in 1..Len(AllPoints(call.series))}

\* C17 (as claimed): on degenerate input no chart function raises: with no
\* data point it writes nothing and returns, and when all x values are equal
\* it writes a chart with every grid line and every point at the horizontal
\* midpoint, for both chart functions, all scale flags and all y values.
C17_NoRaiseOnDegenerateInput ==
    ChartReturned /\ Cardinality(CallXs) <= 1 =>
        /\ ret.raised = "none"
        /\ CallXs = {} => ~ret.written
        /\ CallXs # {} =>
             /\ ret.written
             /\ \A j \in 1..Len(ret.grid) : ret.grid[j].px = Frac(1, 2)
             /\ \A d \in 1..Len(ret.shapes) : \A j \in 1..Len(ret.shapes[d].points) :
                   ret.shapes[d].points[j].px = Frac(1, 2)

\* the y a series holds at x: 0 when it has no point there, and the y of the
\* last of its points at x when it has several
YAt(i, x) ==
    LET pts == call.series[i]
    IN  IF \A j \in 1..Len(pts) : pts[j][1] # x THEN 0
        ELSE pts[CHOOSE j \in 1..Len(pts) :
                    /\ pts[j][1] = x
                    /\ \A h \in (j + 1)..Len(pts) : pts[h][1] # x][2]

RECURSIVE CumAt(_, _)
\* the sum at x of the layers up to layer i
CumAt(i, x) == IF i = 0 THEN 0 ELSE CumAt(i - 1, x) + YAt(i, x)

\* the union domain, ascending
UnionXs == Ascending(CallXs)

\* the place on the y axis of a stacked value: the axis ends at 1.1 times the
\* largest total
HeightOf(v) ==
    Frac(10 * v, 11 * SetMax({CumAt(Len(call.series), x) : x \in CallXs}))

\* the curve of layer i over the union domain, left to right, at the x
\* positions of the vertical grid lines
CurveOf(i) ==
    [j \in 1..Len(UnionXs) |->
        [px |-> ret.grid[j].px, py |-> HeightOf(CumAt(i, UnionXs[j]))]]

\* the axis baseline, right end first
Baseline ==
    <<[px |-> ret.grid[Len(UnionXs)].px, py |-> Frac(0, 1)],
      [px |-> ret.grid[1].px, py |-> Frac(0, 1)]>>

\* C18: in a stacked area chart that is drawn, there is one polygon per layer;
\* the top edge of layer i runs over the union domain at the sum of the y
\* values at x of the layers up to i (a series with no point at x adds 0, a
\* series with several adds the last), and its bottom edge is the curve of
\* the layer below run backwards, or the axis baseline for the lowest layer.
C18_StackedLayersAreCumulative ==
    (cpc = "returned" /\ call.fn = "draw_stacked_area_chart" /\ ret.written) =>
        /\ Len(ret.shapes) = Len(call.series)
        /\ Len(ret.grid) = Len(UnionXs)
        /\ \A i \in 1..Len(call.series) :
             \E d \in 1..Len(ret.shapes) :
                /\ ret.shapes[d].series = i
                /\ ret.shapes[d].points =
                     CurveOf(i) \o (IF i > 1 THEN Reversed(CurveOf(i - 1)) ELSE Baseline)

C18_Witness ==
    /\ cpc = "returned" /\ call.fn = "draw_stacked_area_chart" /\ ret.written
    /\ Len(call.series) = 2
    /\ Cardinality(CallXs) = 3
    /\ \E x \in CallXs : \A j \in 1..Len(call.series[1]) : call.series[1][j][1] # x
    /\ \E x \in CallXs : YAt(1, x) > 0 /\ YAt(2, x) > 0

-----------------------------------------------------------------------------
(* The pipeline drivers: properties *)

\* C19 (as claimed): a driver's process ends with a non-zero status exactly
\* when no record was parsed from any module log, having reported "no data"
\* and neither aggregated nor rendered; with at least one record it ends with
\* status 0.
C19_NonZeroExitIffNoRecords ==
    (cpc = "exited" /\ call.fn = "main") =>
        /\ ret.status # 0 <=> ret.all_rows = <<>>
        /\ ret.all_rows = <<>> => ret.no_data /\ ~ret.reported
        /\ ret.all_rows # <<>> => ret.status = 0 /\ ret.reported

\* C20: for every key width and every signature width S > 0,
\* theory_query_false_positive(w, S + 1) <= theory_query_false_positive(w, S),
\* whichever of its possible values each call returns
C20_NonIncreasingInSignatureWidth ==
    (cpc = "returned" /\ call.fn = "theory_query_false_positive") =>
        FloatLeq(ret.at_next, ret.at_s)

\* the step from S = 53 to S = 54, where 1.0 - 2^-S rounds to 1.0 and the
\* modelled probability falls to 0.0
C20_Witness ==
    /\ cpc = "returned"
    /\ call.fn = "theory_query_false_positive"
    /\ call.s_bits = Precision
    /\ Checks(call.w_bits) > 1
    /\ ret.at_s # FloatZero
    /\ ret.at_next = FloatZero

-----------------------------------------------------------------------------
(* Log parser: the repeat count and the custom metrics *)

\* the second token of the line under study, and the number it denotes
CountToken == Subject.rest.toks[1]

\* C21 (as claimed): the repeat count of a line is recorded as the repeat
\* count only: no other field of the line's row holds it (no number written
\* elsewhere on a line of the model equals the line's repeat count).
C21_RepeatCountIsNoMetricValue ==
    (ppc = "parsed" /\ try_int(CountToken) # NoneVal) =>
        \A r \in SubjectRows :
            \A f \in DOMAIN rows[r] \ {F_samples_count} :
                rows[r][f] # try_float(CountToken)

\* the tokens of the line under study after its name
RestToks == Subject.rest.toks

\* the positions j of the (value, unit) pairs (RestToks[j - 1], RestToks[j])
\* that lie after the repeat count and whose unit is no standard unit
CustomPairs ==
    {j \in 3..Len(RestToks) : RestToks[j] \notin {U_ns_op, U_B_op, U_allocs_op}}

\* the unit with every "/" turned into "_" and every "." dropped
CleanUnit(u) ==
    LET under == [k \in 1..Len(u) |-> IF u[k] = "/" THEN "_" ELSE u[k]]
    IN  SelectSeq(under, LAMBDA ch : ch # ".")

\* the row holds the value of pair j under the cleaned unit of pair j
StoredPair(row, j) ==
    /\ CleanUnit(RestToks[j]) \in DOMAIN row
    /\ row[CleanUnit(RestToks[j])] = try_float(RestToks[j - 1])

\* C22: for every (value, unit) pair after the repeat count whose unit is no
\* standard unit, the row holds the value under the unit's name, with "/"
\* replaced by "_" and "." removed, if and only if the value parses as a
\* number and the unit does not.
C22_CustomMetricStoredIffNumberAndName ==
    ppc = "parsed" =>
        \A r \in SubjectRows :
            \A j \in CustomPairs :
                StoredPair(rows[r], j)
                    <=> (/\ try_float(RestToks[j - 1]) # NoneVal
                         /\ try_float(RestToks[j]) = NoneVal)

\* a parsed line with the pair "88.0 bits/key", stored under bits_key
C22_Witness ==
    /\ ppc = "parsed"
    /\ \E r \in SubjectRows :
          \E j \in CustomPairs :
              /\ \E k \in 1..Len(RestToks[j]) : RestToks[j][k] = "/"
              /\ StoredPair(rows[r], j)
              /\ F_bits_key \in DOMAIN rows[r]

-----------------------------------------------------------------------------
(* The two medians: properties *)

\* C23 (as claimed): for every non-empty list of values, the p50 that
\* quantile(vals, 0.5) returns equals the median that statistics.median
\* returns for the same values.
C23_P50EqualsMedian ==
    (cpc = "returned" /\ call.fn = "quantile" /\ call.vals # <<>>) =>
        ret.p50 = ret.median

-----------------------------------------------------------------------------
(* parse_mem_reports: properties *)

\* the BenchmarkMemoryDetailed/ lines at or above line n of the log
HeadsUpTo(n) == {h \in 1..n : call.lines[h].head}

\* the most recent of them
LastHead(n) == CHOOSE h \in HeadsUpTo(n) : \A g \in HeadsUpTo(n) : g <= h

\* C24 (as claimed): every report is filed under the mode and the key count
\* that the most recent BenchmarkMemoryDetailed line above it states, and
\* under nothing that an earlier line states.
C24_FiledUnderLatestInvocationLine ==
    call.fn = "parse_mem_reports" =>
        \A e \in 1..Len(ret.filed) :
            HeadsUpTo(ret.filed[e].line) # {} =>
                /\ ret.filed[e].mode = call.lines[LastHead(ret.filed[e].line)].mode
                /\ ret.filed[e].keys
                     = NumVal(call.lines[LastHead(ret.filed[e].line)].keys, 0)

\* the line that the next turn of the loop reads carries a malformed payload
AtMalformedLine ==
    /\ cpc = "called"
    /\ call.fn = "parse_mem_reports"
    /\ call.exists
    /\ ret.i <= Len(call.lines)
    /\ call.lines[ret.i].payload # 0
    /\ MemPayloads[call.lines[ret.i].payload].malformed

\* C25: a line with a malformed payload is skipped alone: reading it raises
\* nothing, leaves the collected reports as they were and moves on to the
\* next line, and a call returns only behind the last line.
C25_MalformedPayloadSkippedAlone ==
    /\ [][AtMalformedLine =>
             /\ ret'.raised = "none"
             /\ cpc' = "called"
             /\ ret'.reports = ret.reports
             /\ ret'.i = ret.i + 1]_vars
    /\ [](call.fn = "parse_mem_reports" =>
             /\ cpc # "raised"
             /\ (cpc = "returned" /\ call.exists) => ret.i = Len(call.lines) + 1)

\* a returned call that stored a report, skipped a malformed line behind it
\* and stored another report behind that
C25_Witness ==
    /\ cpc = "returned"
    /\ call.fn = "parse_mem_reports"
    /\ \E e, g \in 1..Len(ret.filed) :
          \E q \in 1..Len(ret.printed) :
             /\ ret.filed[e].line < ret.printed[q].line
             /\ ret.printed[q].line < ret.filed[g].line
             /\ MemPayloads[call.lines[ret.printed[q].line].payload].malformed

-----------------------------------------------------------------------------
(* flatten_report: the black-box components *)

FlattenReturned == cpc = "returned" /\ call.fn = "flatten_report"

RECURSIVE AncestorsOf(_, _)
\* the proper ancestors of node j of the report
AncestorsOf(data, j) ==
    IF data[j].parent = 0 THEN {}
    ELSE {data[j].parent} \cup AncestorsOf(data, data[j].parent)

BlackBoxNames == {"hzft", "rsdic_bv", "ApproxZFastTrie", "buckets"}

\* the nodes outside every black-box subtree (a black-box node itself is
\* outside when no ancestor of it is a black box)
Outside(data) ==
    {j \in 1..Len(data) :
        \A a \in AncestorsOf(data, j) : data[a].name \notin BlackBoxNames}

\* the nodes whose bytes go to a bucket if the walk stops at the black boxes
Attributed(data) ==
    {j \in Outside(data) :
        data[j].name \in BlackBoxNames \cup {"header", "Top_Level_Header"}}

RECURSIVE SumTotals(_, _)
SumTotals(data, S) ==
    IF S = {} THEN 0
    ELSE LET j == CHOOSE q \in S : TRUE
         IN  data[j].total_bytes + SumTotals(data, S \ {j})

NamedOutside(data, names) == {j \in Attributed(data) : data[j].name \in names}

\* C26 (as claimed): only the nodes outside every black-box subtree add bytes
\* to a bucket - each bucket of a component holds the totals of the
\* outermost nodes of its name, and Other the totals of the headers outside
\* the black boxes plus what is then missing from the root total - and no
\* node's bytes are attributed twice: no attributed node lies below another.
C26_NoDescentNoDoubleAttribution ==
    FlattenReturned =>
        /\ ret.out.HZFastTrie = SumTotals(call.data, NamedOutside(call.data, {"hzft"}))
        /\ ret.out.Leaf_BitVector
             = SumTotals(call.data, NamedOutside(call.data, {"rsdic_bv"}))
        /\ ret.out.MMPH_Trie
             = SumTotals(call.data, NamedOutside(call.data, {"ApproxZFastTrie"}))
        /\ ret.out.MMPH_Buckets
             = SumTotals(call.data, NamedOutside(call.data, {"buckets"}))
        /\ ret.out.Other
             = SumTotals(call.data, NamedOutside(call.data, {"header", "Top_Level_Header"}))
               + Max2(0, call.data[1].total_bytes
                            - SumTotals(call.data, Attributed(call.data)))
        /\ \A j \in Attributed(call.data) :
              AncestorsOf(call.data, j) \cap Attributed(call.data) = {}

-----------------------------------------------------------------------------
(* draw_line_chart: colours and legend *)

LineChartReturned == cpc = "returned" /\ call.fn = "draw_line_chart"

\* the legend entries drawn for series i (i counts from 1 in the model, the
\* code's idx is i - 1)
LegendEntries(i) == {d \in 1..Len(ret.shapes) : ret.shapes[d].series = i}

\* the entry of series i has colour palette[(i - 1) mod 7] and lies
\* 18 * (i - 1) below legend_y
EntryAsClaimed(d) ==
    /\ ret.shapes[d].color = (ret.shapes[d].series - 1) % 7
    /\ ret.shapes[d].legend_dy = 18 * (ret.shapes[d].series - 1)

\* C27 (as claimed): every series of the map gets exactly one legend entry,
\* with colour palette[idx mod 7] at offset legend_y + 18 * idx.
C27_OneLegendEntryPerSeries ==
    LineChartReturned =>
        \A i \in 1..Len(call.series) :
            /\ Cardinality(LegendEntries(i)) = 1
            /\ \A d \in LegendEntries(i) : EntryAsClaimed(d)

\* C27 (amended): every series that has a point gets exactly one legend
\* entry, with colour palette[idx mod 7] at offset legend_y + 18 * idx, idx
\* counting all series in declaration order; a series without points gets
\* no entry.
C27_OneLegendEntryPerSeriesWithPoints ==
    LineChartReturned =>
        \A i \in 1..Len(call.series) :
            /\ Cardinality(LegendEntries(i)) = (IF call.series[i] = <<>> THEN 0 ELSE 1)
            /\ \A d \in LegendEntries(i) : EntryAsClaimed(d)

\* a chart of more series than the palette has colours, one of them empty
\* and lying before a drawn one, the last one drawn in the first colour again
C27_Witness ==
    /\ LineChartReturned
    /\ Len(call.series) > 7
    /\ \E i \in 1..Len(call.series) : call.series[i] = <<>> /\ LegendEntries(i + 1) # {}
    /\ \E d \in LegendEntries(8) : ret.shapes[d].color = 0 /\ ret.shapes[d].legend_dy = 126

-----------------------------------------------------------------------------
(* parse_raw_files: properties *)

SameKey(a, b) ==
    /\ a.module = b.module
    /\ a.benchmark = b.benchmark
    /\ a.keycount = b.keycount

\* the records before record r that share its (module, benchmark, keycount)
EarlierOfKey(r) == {q \in 1..(r - 1) : SameKey(ret.rows[q], ret.rows[r])}

\* C28 (as claimed): the records of one (module, benchmark name, key count)
\* are numbered 0, 1, 2, ... in the order their lines are read, so their
\* sample indices differ pairwise.
C28_SampleIndexCountsFromZero ==
    (cpc = "returned" /\ call.fn = "parse_raw_files") =>
        \A r \in 1..Len(ret.rows) :
            ret.rows[r].run_index = Cardinality(EarlierOfKey(r))

-----------------------------------------------------------------------------
(* Run orchestrator: the final output of every module is rewritten *)

\* the invocations submitted for module k
TasksOf(k) == {t \in 1..Len(tasks) : tasks[t].mod = k}

\* C29: when run_benchmarks has returned, the final output file of every
\* module passed to it exists and holds nothing of what it held before the
\* run, and the file of a module for which no invocation was submitted (split
\* mode without a discovered name, or repeat count 0) is empty.
C29_EveryFinalOutputRewritten ==
    (pc = "done" /\ driver = "lib") =>
        \A k \in 1..Len(modules) :
            /\ Exists(fs, modules[k].out)
            /\ OldChunk \notin SeqRange(fs[modules[k].out])
            /\ TasksOf(k) = {} => fs[modules[k].out] = <<>>

\* the merge loop has rewritten the output of a first module that had no
\* invocation, in split mode, and is about to open the output of the second,
\* which had invocations and still holds the content of an earlier run
C29_Witness ==
    /\ pc = "merge" /\ driver = "lib" /\ split /\ count > 0
    /\ Len(modules) = 2 /\ mi = 2 /\ mj = 0
    /\ TasksOf(1) = {} /\ TasksOf(2) # {}
    /\ fs[modules[1].out] = <<>>
    /\ Exists(fs, modules[2].out) /\ fs[modules[2].out] = <<OldChunk>>

-----------------------------------------------------------------------------
(* Run orchestrator: termination *)

\* run_benchmarks has returned: the barrier is passed with every invocation
\* finished and the merge loop has been over every module
RunReturned ==
    /\ pc = "done"
    /\ AllDone(tasks)
    /\ mi > Len(modules)
    /\ \A k \in 1..Len(modules) : Exists(fs, modules[k].out)

\* C30: when every external invocation exits, with success or not, a run of
\* run_benchmarks passes the barrier, merges every module and returns, for
\* every pool size and every number of submitted invocations, more of them
\* than workers included; no step of the orchestrator gives an invocation up.
C30_RunTerminates == (pc = "submit") ~> RunReturned

\* a run has returned that submitted more invocations than the pool has
\* workers, one of which failed
C30_Witness ==
    /\ RunReturned
    /\ Len(tasks) > jobs
    /\ \E k \in 1..Len(tasks) : ~tasks[k].ok
    /\ \E k \in 1..Len(tasks) : tasks[k].ok

====
